---- MODULE Spec2Model ----
(***************************************************************************)
(* The file signature pipeline of src/quantum_signatures.py                *)
(* (QuantumSignatureEngine) as a state machine.                            *)
(*                                                                         *)
(* Numbers.  Python floats in [0,1] are fixed-point integers in units of   *)
(* 1/One; phases are integers in milliradians; logarithms are fixed-point  *)
(* in units of 1/256 bit;    the uniqueness score is in units of 1/Milli.  *)
(* Divisions round down.                                                   *)
(*                                                                         *)
(* Randomness.  The module-level generator of Python's `random` is a       *)
(* piece of process state: a tape of raw draws and a position.  A raw draw *)
(* r stands for random.random() = r / RandLevels; random.uniform and       *)
(* random.randrange are computed from it.  The tapes explored are          *)
(* MaxTape + 1 of the periodic ones of period TapeLen.                     *)
(*                                                                         *)
(* Hashing.  hashlib's primitives are iterated compression functions; the  *)
(* model keeps that shape (a state folded over the bytes fed so far) with  *)
(* small toy mixing functions, and a digest of DigestLen bytes.            *)
(***************************************************************************)
EXTENDS Integers, Sequences, FiniteSets, TLC

----------------------------------------------------------------------------
(* Bounds of the model *)

MaxD == 4
MaxS == 2
MaxN == 2
MaxCalls == 2
MaxFileLen == 4
MaxTape == 3

----------------------------------------------------------------------------
(* Program constants, scaled down to sizes that can be enumerated *)

\* the bytes of a blake2b digest (64)
DigestLen == 8
\* the bytes one f.read takes (4096)
ChunkBytes == 2
\* the size from which a file is streamed (50 * 1024 * 1024)
SizeLimit == 3
\* the values random.random() takes, and the period of the generator
RandLevels == 6
TapeLen == 3

----------------------------------------------------------------------------
(* Fixed-point units *)

One == 12
Milli == 1000
TwoPi == 6283

Min(a, b) == IF a < b THEN a ELSE b
Max(a, b) == IF a > b THEN a ELSE b
Abs(a) == IF a < 0 THEN -a ELSE a

RECURSIVE SumSeq(_)
SumSeq(s) == IF s = <<>> THEN 0 ELSE Head(s) + SumSeq(Tail(s))

RECURSIVE Pow(_, _)
Pow(b, e) == IF e = 0 THEN 1 ELSE b * Pow(b, e - 1)

\* Python slice s[a:b] with 0 <= a, on a 1-indexed sequence
Slice(s, a, b) == SubSeq(s, a + 1, Min(b, Len(s)))

----------------------------------------------------------------------------
(* The file system and the Digest Combiner (_calculate_complex_hash) *)

ByteVals == {0, 255}

RECURSIVE SeqsUpTo(_, _)
SeqsUpTo(S, n) ==
    IF n = 0 THEN {<<>>}
    ELSE LET shorter == SeqsUpTo(S, n - 1)
         IN  shorter \cup {Append(s, x) : s \in {t \in shorter : Len(t) = n - 1}, x \in S}

Contents == SeqsUpTo(ByteVals, MaxFileLen)

Paths == {"missing", "empty", "zeros"}

Exists(path) == path # "missing"

FileContent(path) ==
    IF path = "zeros" THEN [k \in 1..MaxFileLen |-> 0] ELSE <<>>

\* A hasher object: the state reached by folding the bytes fed so far.
HashNew(alg) == alg

RECURSIVE HashUpdate(_, _, _)
HashUpdate(alg, h, bytes) ==
    IF bytes = <<>> THEN h
    ELSE HashUpdate(alg, ((2 * alg + 1) * h + Head(bytes) + alg) % 251, Tail(bytes))

\* .digest(): the bytes of a hasher's state (two bytes here)
HashDigest(alg, h) == << (h * 7 + alg) % 256, (h * 13 + 5 * alg) % 256 >>

Sha256 == 1
Md5 == 2
Sha1 == 3
Blake2b == 4

\* hashlib.X(content).digest()
HashOf(alg, bytes) == HashDigest(alg, HashUpdate(alg, HashNew(alg), bytes))

\* hashlib.blake2b(combined).digest(): DigestLen bytes
Blake2bDigest(combined) ==
    LET h == HashUpdate(Blake2b, HashNew(Blake2b), combined)
    IN  [k \in 1..DigestLen |-> 85 * (((h \div Pow(4, (k - 1) % 4)) + (k - 1) \div 4) % 4)]

\* lines 67-77: the whole file is read and hashed at once
WholeFileHash(content) ==
    Blake2bDigest(HashOf(Sha256, content) \o HashOf(Md5, content) \o HashOf(Sha1, content))

\* f.read(4096) at offset pos: at most ChunkBytes bytes, b"" at the end of file
ReadAt(content, pos) == Slice(content, pos, pos + ChunkBytes)

\* lines 86-88 feeding only full chunks: a short last chunk is lost
UpdateAllFullOnly(hs, chunk) ==
    IF Len(chunk) < ChunkBytes THEN hs
    ELSE [alg \in DOMAIN hs |-> HashUpdate(alg, hs[alg], chunk)]

\* lines 86-88: the chunk is fed to each of the three hashers
UpdateAll(hs, chunk) == [alg \in DOMAIN hs |-> HashUpdate(alg, hs[alg], chunk)]

\* lines 84-88: `while chunk := f.read(4096)` from offset pos to the end of file
RECURSIVE FeedChunks(_, _, _)
FeedChunks(hs, content, pos) ==
    IF ReadAt(content, pos) = <<>> THEN hs
    ELSE FeedChunks(UpdateAll(hs, ReadAt(content, pos)), content,
                    pos + Len(ReadAt(content, pos)))

NewHashers == [alg \in {Sha256, Md5, Sha1} |-> HashNew(alg)]

CombineHashers(hs) ==
    Blake2bDigest(HashDigest(Sha256, hs[Sha256]) \o HashDigest(Md5, hs[Md5])
                  \o HashDigest(Sha1, hs[Sha1]))

\* lines 80-91: the streamed path
StreamedHash(content) == CombineHashers(FeedChunks(NewHashers, content, 0))

\* lines 62-96; the caller sees the digest or the re-raised exception
ComplexHash(path) ==
    IF ~Exists(path) THEN [ok |-> FALSE, hash |-> <<>>]
    ELSE IF Len(FileContent(path)) < SizeLimit
         THEN [ok |-> TRUE, hash |-> WholeFileHash(FileContent(path))]
         ELSE [ok |-> TRUE, hash |-> StreamedHash(FileContent(path))]

----------------------------------------------------------------------------
(* The random module: a tape of raw draws *)

Tapes == 0..(Pow(RandLevels, TapeLen) - 1)

\* the k-th raw draw of the tape: random.random() = RawAt(tape, k) / RandLevels
RawAt(tape, k) == (tape \div Pow(RandLevels, k % TapeLen)) % RandLevels

\* random.uniform(-0.1, 0.1) = a + (b - a) * random(), to the nearest 1/One
Jitter(r) == (4 * One * r - 2 * One * RandLevels + 10 * RandLevels) \div (20 * RandLevels)

\* random.randrange(n)
RandRange(r, n) == (r * n) \div RandLevels

\* random.random() < 0.5
Coin(r) == 2 * r < RandLevels

\* random.uniform(0, 2 * math.pi), in milliradians
RandomPhase(r) == (TwoPi * r) \div RandLevels

----------------------------------------------------------------------------
(* The State Constructor (_hash_to_quantum_state) *)

\* line 104 (D = 0 raises ZeroDivisionError before this is used)
ChunkSize(hash_bytes, D) == Len(hash_bytes) \div D

\* lines 106-110 with every chunk chunk_size long: the last takes no remainder
ChunkEven(hash_bytes, D, i) ==
    Slice(hash_bytes, i * ChunkSize(hash_bytes, D), (i + 1) * ChunkSize(hash_bytes, D))

\* lines 106-110: hash_bytes[start:end] of dimension i (0-based)
Chunk(hash_bytes, D, i) ==
    LET start == i * ChunkSize(hash_bytes, D)
        end == IF i < D - 1 THEN start + ChunkSize(hash_bytes, D) ELSE Len(hash_bytes)
    IN  Slice(hash_bytes, start, end)

\* line 111: b / 255
ByteValue(b) == (b * One) \div 255

\* line 117 without the upper limit: max(0.0, v)
ClampBelowOnly(v) == Max(0, v)

\* line 117
Clamp(v) == Min(One, Max(0, v))

\* lines 105-120: D dimensions of S variants; the draws are taken in loop order
\* from position pos of the tape
BuildState(hash_bytes, D, S, tape, pos) ==
    [i1 \in 1..D |->
        LET chunk == Chunk(hash_bytes, D, i1 - 1)
            before == S * (i1 - 1) * ChunkSize(hash_bytes, D)
        IN  [s1 \in 1..S |->
                [k \in 1..Len(chunk) |->
                    Clamp(ByteValue(chunk[k])
                          + Jitter(RawAt(tape, pos + before + (s1 - 1) * Len(chunk) + k - 1)))]]]

\* the number of draws BuildState takes
BuildDraws(hash_bytes, S) == S * Len(hash_bytes)

\* lines 126-128 without the loop: a second index drawn once
RedrawNever(dim1, D, tape, pos, tries) ==
    [ok |-> TRUE, dim2 |-> RandRange(RawAt(tape, pos), D), pos |-> pos + 1]

\* lines 126-128: dim2 is drawn again while it equals dim1.  On a periodic tape
\* the loop either ends within TapeLen draws or never does (ok = FALSE).
RECURSIVE Redraw(_, _, _, _, _)
Redraw(dim1, D, tape, pos, tries) ==
    LET dim2 == RandRange(RawAt(tape, pos), D)
    IN  IF dim2 # dim1 THEN [ok |-> TRUE, dim2 |-> dim2, pos |-> pos + 1]
        ELSE IF tries >= TapeLen THEN [ok |-> FALSE, dim2 |-> dim2, pos |-> pos + 1]
        ELSE Redraw(dim1, D, tape, pos + 1, tries + 1)

\* lines 124-129: n more pairs appended to the list
RECURSIVE DrawPairs(_, _, _, _, _)
DrawPairs(pairs, n, D, tape, pos) ==
    IF n = 0 THEN [ok |-> TRUE, pairs |-> pairs, pos |-> pos]
    ELSE LET dim1 == RandRange(RawAt(tape, pos), D)
             second == Redraw(dim1, D, tape, pos + 1, 0)
         IN  IF ~second.ok THEN [ok |-> FALSE, pairs |-> pairs, pos |-> second.pos]
             ELSE DrawPairs(Append(pairs, <<dim1, second.dim2>>), n - 1, D, tape, second.pos)

----------------------------------------------------------------------------
(* The State Evolver (_evolve_quantum_state) *)

\* lines 143-147
Normalize(superposition) ==
    LET total == SumSeq(superposition)
    IN  IF total > 0 THEN [k \in DOMAIN superposition |-> (superposition[k] * One) \div total]
        ELSE superposition

\* line 145 without the guard of line 144: the division is always made
NormalizeDivisorsUnguarded(superposition) == {SumSeq(superposition)}

\* lines 144-145: the divisors of the divisions the normalization makes
NormalizeDivisors(superposition) ==
    IF SumSeq(superposition) > 0 THEN {SumSeq(superposition)} ELSE {}

\* lines 145, 166, 167: the divisors of every division of one round
EvolveDivisors(quantum_state) ==
    UNION {UNION {NormalizeDivisors(quantum_state[i1][s1]) : s1 \in DOMAIN quantum_state[i1]} :
              i1 \in DOMAIN quantum_state}
    \cup {2, 4}

\* line 153: min(1.0, max(0.0, math.sin(v * math.pi) ** 2)), v in 0..One, to the
\* nearest 1/One (the float at v = 1.0 is about 1.5e-32 and rounds to 0)
SinSquared == <<0, 1, 3, 6, 9, 11, 12, 11, 9, 6, 3, 1, 0>>

Transform(v) == Clamp(SinSquared[v + 1])

\* lines 138-157
Gates(quantum_state) ==
    [i1 \in DOMAIN quantum_state |->
        [s1 \in DOMAIN quantum_state[i1] |->
            LET normalized == Normalize(quantum_state[i1][s1])
            IN  [k \in DOMAIN normalized |-> Transform(normalized[k])]]]

\* lines 166-169, in quarters of a unit: mean + diff and mean - diff
EntangledHigh4(x, y) == 2 * (x + y) + Abs(x - y)
EntangledLow4(x, y) == 2 * (x + y) - Abs(x - y)

\* lines 168-169 with the two targets exchanged: dim1 takes mean - diff
EntangleVariantSwapped(state, dim1, dim2, s1) ==
    LET a == state[dim1 + 1][s1]
        b == state[dim2 + 1][s1]
        m == Min(Len(a), Len(b))
        a2 == [k \in DOMAIN a |-> IF k <= m THEN EntangledLow4(a[k], b[k]) \div 4 ELSE a[k]]
        b2 == [k \in DOMAIN b |-> IF k <= m THEN EntangledHigh4(a[k], b[k]) \div 4 ELSE b[k]]
    IN  [state EXCEPT ![dim1 + 1][s1] = a2, ![dim2 + 1][s1] = b2]

\* lines 164-169 for one variant index s1 of the pair (dim1, dim2), 0-based
EntangleVariant(state, dim1, dim2, s1) ==
    LET a == state[dim1 + 1][s1]
        b == state[dim2 + 1][s1]
        m == Min(Len(a), Len(b))
        a2 == [k \in DOMAIN a |-> IF k <= m THEN EntangledHigh4(a[k], b[k]) \div 4 ELSE a[k]]
        b2 == [k \in DOMAIN b |-> IF k <= m THEN EntangledLow4(a[k], b[k]) \div 4 ELSE b[k]]
    IN  [state EXCEPT ![dim1 + 1][s1] = a2, ![dim2 + 1][s1] = b2]

\* lines 162-169: the variants of one pair, one coin each
RECURSIVE EntanglePair(_, _, _, _, _, _)
EntanglePair(state, dim1, dim2, s1, tape, pos) ==
    IF s1 > Min(Len(state[dim1 + 1]), Len(state[dim2 + 1])) THEN state
    ELSE EntanglePair(IF Coin(RawAt(tape, pos + s1 - 1))
                      THEN EntangleVariant(state, dim1, dim2, s1) ELSE state,
                      dim1, dim2, s1 + 1, tape, pos)

\* lines 160-169: the pairs in list order, each on the state the former left
RECURSIVE Entangle(_, _, _, _)
Entangle(state, pairs, tape, pos) ==
    IF pairs = <<>> THEN state
    ELSE LET dim1 == Head(pairs)[1]
             dim2 == Head(pairs)[2]
         IN  Entangle(EntanglePair(state, dim1, dim2, 1, tape, pos), Tail(pairs), tape,
                      pos + Min(Len(state[dim1 + 1]), Len(state[dim2 + 1])))

RECURSIVE EntangleDraws(_, _)
EntangleDraws(state, pairs) ==
    IF pairs = <<>> THEN 0
    ELSE Min(Len(state[Head(pairs)[1] + 1]), Len(state[Head(pairs)[2] + 1]))
         + EntangleDraws(state, Tail(pairs))

\* lines 133-171; pairs is what self.entanglement_pairs holds when the loop starts
EvolveState(quantum_state, pairs, tape, pos) == Entangle(Gates(quantum_state), pairs, tape, pos)

----------------------------------------------------------------------------
(* The State Analyzer (_analyze_quantum_state) *)

\* lines 176-182: collapsed_state[i, j] += value for j < D
Collapsed(quantum_state, D) ==
    [i1 \in 1..D |->
        [j1 \in 1..D |->
            SumSeq([s1 \in 1..Len(quantum_state[i1]) |->
                       IF j1 <= Len(quantum_state[i1][s1])
                       THEN quantum_state[i1][s1][j1] ELSE 0])]]

\* a quotient n / d kept exact; d = 0 stands for a division by zero
Zero == [n |-> 0, d |-> 1]

\* lines 185-187 dividing every row, also a row whose sum is zero
NormalizeRowsUnguarded(collapsed) ==
    [i1 \in DOMAIN collapsed |->
        [j1 \in DOMAIN collapsed[i1] |->
            [n |-> collapsed[i1][j1], d |-> SumSeq(collapsed[i1])]]]

\* lines 185-187: np.divide(collapsed, row_sums, out=zeros, where=row_sums != 0)
NormalizeRows(collapsed) ==
    [i1 \in DOMAIN collapsed |->
        LET row_sum == SumSeq(collapsed[i1])
        IN  [j1 \in DOMAIN collapsed[i1] |->
                IF row_sum # 0 THEN [n |-> collapsed[i1][j1], d |-> row_sum] ELSE Zero]]

\* line 194 looking at the row index only: any(i in pair for pair in ...)
InAnyPairRowOnly(i, j, pairs) ==
    \E p \in DOMAIN pairs : i = pairs[p][1] \/ i = pairs[p][2]

\* line 194: any(i in pair or j in pair for pair in self.entanglement_pairs)
InAnyPair(i, j, pairs) ==
    \E p \in DOMAIN pairs : i = pairs[p][1] \/ i = pairs[p][2]
                            \/ j = pairs[p][1] \/ j = pairs[p][2]

\* the cells (0-based) that draw a phase, and how many are drawn before (i, j)
DrawnCells(D, pairs) == {c \in (0..(D - 1)) \X (0..(D - 1)) : InAnyPair(c[1], c[2], pairs)}

DrawsBefore(i, j, D, pairs) ==
    Cardinality({c \in DrawnCells(D, pairs) : c[1] * D + c[2] < i * D + j})

\* line 197 without the reduction: i * j
FixedPhaseUnreduced(i, j) == i * j * Milli

\* line 197: (i * j) % (2 * math.pi), in milliradians
FixedPhase(i, j) == (i * j * Milli) % TwoPi

\* lines 190-197, in milliradians
Phases(D, pairs, tape, pos) ==
    [i1 \in 1..D |->
        [j1 \in 1..D |->
            IF InAnyPair(i1 - 1, j1 - 1, pairs)
            THEN RandomPhase(RawAt(tape, pos + DrawsBefore(i1 - 1, j1 - 1, D, pairs)))
            ELSE FixedPhase(i1 - 1, j1 - 1)]]

\* lines 173-204; ref is the list object self.entanglement_pairs names
AnalyzeState(quantum_state, D, ref, pairs, tape, pos) ==
    [amplitudes |-> NormalizeRows(Collapsed(quantum_state, D)),
     phases |-> Phases(D, pairs, tape, pos),
     entanglement |-> ref]

----------------------------------------------------------------------------
(* The Uniqueness Scorer (_calculate_uniqueness) *)

RECURSIVE FloorLog2(_)
FloorLog2(n) == IF n < 2 THEN 0 ELSE 1 + FloorLog2(n \div 2)

\* the fraction bits of log2, by repeated squaring of y in [1, 2) (y in 1/4096)
RECURSIVE Log2Bits(_, _, _)
Log2Bits(y, acc, bits) ==
    IF bits = 0 THEN acc
    ELSE LET y2 == (y * y) \div 4096
         IN  IF y2 >= 8192 THEN Log2Bits(y2 \div 2, 2 * acc + 1, bits - 1)
             ELSE Log2Bits(y2, 2 * acc, bits - 1)

\* math.log2(n) for an integer n >= 1, in 1/256 bit
Log2(n) == Log2Bits((n * 4096) \div Pow(2, FloorLog2(n)), FloorLog2(n), 8)

\* line 315 with the sign lost: entropy += a * log2(a)
EntropyTermSignLost(a) == IF a.n > 0 THEN (a.n * (Log2(a.n) - Log2(a.d))) \div a.d ELSE 0

\* lines 314-315: -a * log2(a) for a = n / d > 0, else nothing
EntropyTerm(a) == IF a.n > 0 THEN (a.n * (Log2(a.d) - Log2(a.n))) \div a.d ELSE 0

\* lines 311-315
Entropy(amplitudes) ==
    SumSeq([i1 \in DOMAIN amplitudes |->
               SumSeq([j1 \in DOMAIN amplitudes[i1] |-> EntropyTerm(amplitudes[i1][j1])])])

\* lines 318-319, in 1/Milli
NormalizedEntropy(amplitudes) ==
    LET max_entropy == Log2(Len(amplitudes) * Len(amplitudes))
    IN  IF max_entropy > 0 THEN (Entropy(amplitudes) * Milli) \div max_entropy ELSE 0

\* line 322 dividing by the dimensions, not by half of them
EntanglementFactorWhole(pairs, D) == (Len(pairs) * Milli) \div D

\* line 322, in 1/Milli: len(entanglement) / (dimensions / 2)
EntanglementFactor(pairs, D) == (Len(pairs) * 2 * Milli) \div D

\* lines 308-326
Uniqueness(amplitudes, pairs, D) ==
    Min(Milli, (7 * NormalizedEntropy(amplitudes) + 3 * EntanglementFactor(pairs, D)) \div 10)

\* lines 314-315, 318: the arguments math.log2 is called with (a ValueError if one
\* is not positive)
Log2Arguments(amplitudes) ==
    UNION {{amplitudes[i1][j1].n : j1 \in {j \in DOMAIN amplitudes[i1] : amplitudes[i1][j].n > 0}} :
              i1 \in DOMAIN amplitudes}
    \cup {Len(amplitudes) * Len(amplitudes)}

\* lines 319, 322: the divisors of the divisions the scorer makes (D / 2 is zero
\* exactly when D is)
ScoreDivisors(amplitudes, D) ==
    (IF Log2(Len(amplitudes) * Len(amplitudes)) > 0
     THEN {Log2(Len(amplitudes) * Len(amplitudes))} ELSE {})
    \cup {D}

\* lines 308-326: the exception the scorer raises, if any
ScoreFault(amplitudes, D) ==
    IF \E n \in Log2Arguments(amplitudes) : n <= 0 THEN "ValueError"
    ELSE IF 0 \in ScoreDivisors(amplitudes, D) THEN "ZeroDivisionError"
    ELSE "none"

----------------------------------------------------------------------------
(* The Visual Renderer (_visualize_quantum_signature): the buffer's shape *)

Visualize(signature_data, R) == [width |-> R, height |-> R]

----------------------------------------------------------------------------
(* generate_signature: the engine, the calls on it, and what each call holds *)

VARIABLES
    dimensions, resolution, superposition_count, evolution_steps,   \* configuration
    entanglement_pairs,     \* the list object the engine field names
    lists,                  \* the list objects: lists[ref] is the content of list ref
    tape, rng,              \* the random module: its tape and its position
    pc, file_path, evolution, file_hash, quantum_state, steps_done,
    signature_data, signature_image, result,
    raised,                 \* the exception a call raised inside the try block
    rng_start,              \* the generator's position when the call began
    own_pairs,              \* the pairs the call's own state construction generated
    seen_pairs,             \* the pairs the call's latest stage read
    constructed,            \* the state the call's construction returned
    rounds_log,             \* input and output of each evolution round of the call
    d_pc, d_content, d_hashers, d_offset, d_whole, d_streamed,  \* a digest computed both ways
    quantum_signatures,     \* the hub's dict of stored results, in insertion order
    components_status,      \* the hub's component flags
    threat_history,         \* the hub's recorded threats
    protection_score,       \* the score the hub emitted last (-1: none yet)
    s_pc, s_hash, s_state,  \* the stages run one step at a time: position, digest, state
    s_before,               \* the state and the generator's position when the round began
    s_round, s_pair, s_variant,     \* rounds done, and the coupling loops' indices
    s_data, s_score,        \* what the analyzer and the scorer returned
    r_pc, r_x, r_y,         \* the renderer run a pixel at a time: position, loop indices
    r_size, r_data,         \* the size the image was created with, and the data drawn
    r_painted,              \* the pixels drawn so far, each with the cell it was drawn from
    metrics,                \* IntegrationMetrics.metrics: component -> its inner dict object
    m_objects,              \* the inner dict objects: m_objects[ref] is the dict's content
    metrics_history,        \* IntegrationMetrics.metrics_history
    m_clock,                \* datetime.now(), counted in update_metrics calls
    anomaly_counters, system_status_data,   \* IntegrationHub: the counters, the last status
    status_call,            \* the argument of the latest update_system_status call
    emitted,                \* the threat_detected signals the latest hub call emitted
    neural_data,            \* IntegrationHub.neural_data
    neural_call,            \* the argument of the latest update_neural_data call
    nodes, anomalies,       \* NeuralEcosystemMap: the process nodes, the anomalies
    a_last                  \* the latest update_animation call: the list it found, its draws

vars == << dimensions, resolution, superposition_count, evolution_steps,
           entanglement_pairs, lists, tape, rng,
           pc, file_path, evolution, file_hash, quantum_state, steps_done,
           signature_data, signature_image, result,
           raised, rng_start, own_pairs, seen_pairs, constructed, rounds_log,
           d_pc, d_content, d_hashers, d_offset, d_whole, d_streamed,
           quantum_signatures, components_status, threat_history, protection_score,
           s_pc, s_hash, s_state, s_before, s_round, s_pair, s_variant, s_data, s_score,
           r_pc, r_x, r_y, r_size, r_data, r_painted,
           metrics, m_objects, metrics_history, m_clock,
           anomaly_counters, system_status_data, status_call, emitted,
           neural_data, neural_call, nodes, anomalies, a_last >>

config_vars == << dimensions, resolution, superposition_count, evolution_steps, tape >>
engine_vars == << entanglement_pairs, lists, rng >>
call_vars == << pc, file_path, evolution, file_hash, quantum_state, steps_done,
                signature_data, signature_image, result,
                raised, rng_start, own_pairs, seen_pairs, constructed, rounds_log >>
digest_vars == << d_pc, d_content, d_hashers, d_offset, d_whole, d_streamed >>
hub_vars == << quantum_signatures, components_status, threat_history, protection_score >>
pipeline_vars == << config_vars, engine_vars, call_vars >>

\* what the pipeline, the digest runs and the hub leave alone
stage_vars == << s_pc, s_hash, s_state, s_before, s_round, s_pair, s_variant, s_data, s_score >>
render_vars == << r_pc, r_x, r_y, r_size, r_data, r_painted >>
metrics_vars == << metrics, m_objects, metrics_history, m_clock >>
status_vars == << anomaly_counters, system_status_data, status_call, emitted >>
neural_vars == << neural_data, neural_call >>
map_vars == << nodes, anomalies, a_last >>
later_vars == << metrics_vars, status_vars, neural_vars, map_vars >>
beside_pipeline == << digest_vars, hub_vars, stage_vars, render_vars, later_vars >>
beside_digest == << pipeline_vars, hub_vars, stage_vars, render_vars, later_vars >>
beside_hub == << pipeline_vars, digest_vars, stage_vars, render_vars, later_vars >>
beside_stages == << call_vars, digest_vars, hub_vars, render_vars, later_vars >>
beside_render == << pipeline_vars, digest_vars, hub_vars, stage_vars, later_vars >>
signature_side == << pipeline_vars, digest_vars, stage_vars, render_vars >>

Calls == 1..MaxCalls

\* Python's None
None == [py |-> "None"]

DefaultResolution == 256
ConfidenceLevel == 950

\* the attributes as large as the bounds allow (the code sets 8, 16, 3 and 256)
Largest == [D |-> MaxD, S |-> MaxS, N |-> MaxN, R |-> DefaultResolution]

\* The configurations explored: the largest one and those a caller gets by
\* assigning one attribute, zero included.
Configs ==
    {c \in [D : 0..MaxD, S : 0..MaxS, N : 0..MaxN, R : {0, DefaultResolution}] :
        Cardinality({f \in DOMAIN Largest : c[f] # Largest[f]}) <= 1}

\* the tapes explored: MaxTape + 1 of the periodic tapes, spread over all of them
TapeOf(k) == (k * 77 + 5) % Pow(RandLevels, TapeLen)

\* lines 17-29, with the configuration fields set as the caller has them
InitEngine ==
    /\ \E c \in Configs :
          /\ dimensions = c.D
          /\ superposition_count = c.S
          /\ evolution_steps = c.N
          /\ resolution = c.R
    /\ \E k \in 0..MaxTape : tape = TapeOf(k)
    /\ rng = 0
    /\ lists = << <<>> >>
    /\ entanglement_pairs = 1

InitCalls ==
    /\ pc = [c \in Calls |-> "idle"]
    /\ file_path = [c \in Calls |-> ""]
    /\ evolution = [c \in Calls |-> FALSE]
    /\ file_hash = [c \in Calls |-> <<>>]
    /\ quantum_state = [c \in Calls |-> <<>>]
    /\ steps_done = [c \in Calls |-> 0]
    /\ signature_data = [c \in Calls |-> None]
    /\ signature_image = [c \in Calls |-> None]
    /\ result = [c \in Calls |-> None]
    /\ raised = [c \in Calls |-> "none"]
    /\ rng_start = [c \in Calls |-> 0]
    /\ own_pairs = [c \in Calls |-> <<>>]
    /\ seen_pairs = [c \in Calls |-> <<>>]
    /\ constructed = [c \in Calls |-> <<>>]
    /\ rounds_log = [c \in Calls |-> <<>>]

DigestOff ==
    /\ d_pc = "off"
    /\ d_content = <<>>
    /\ d_hashers = NewHashers
    /\ d_offset = 0
    /\ d_whole = <<>>
    /\ d_streamed = <<>>

\* IntegrationHub.__init__ (integration_hub.py, lines 105-141)
InitHub ==
    /\ quantum_signatures = <<>>
    /\ components_status = [neural_ecosystem |-> FALSE, quantum_signatures |-> FALSE,
                            temporal_prediction |-> FALSE]
    /\ threat_history = <<>>
    /\ protection_score = -1

StagesOff ==
    /\ s_pc = "off"
    /\ s_hash = <<>>
    /\ s_state = <<>>
    /\ s_before = [state |-> <<>>, rng |-> 0]
    /\ s_round = 0
    /\ s_pair = 1
    /\ s_variant = 1
    /\ s_data = None
    /\ s_score = 0

RenderOff ==
    /\ r_pc = "off"
    /\ r_x = 0
    /\ r_y = 0
    /\ r_size = None
    /\ r_data = None
    /\ r_painted = <<>>

\* lines 22-46: the three inner dicts ('Low' is level 0), an empty history
InitMetricsObject ==
    /\ metrics = [neural |-> 1, quantum |-> 2, temporal |-> 3]
    /\ m_objects = << [anomaly_score |-> 0, system_health |-> 100, active_threats |-> 0],
                      [signature_matches |-> 0, suspicious_files |-> 0, confidence_level |-> 0],
                      [threat_probability |-> 0, prediction_accuracy |-> 0, risk_level |-> 0] >>
    /\ metrics_history = <<>>
    /\ m_clock = 0

\* the objects of integration_hub.py and neural_ecosystem.py that a specification of
\* the signature engine leaves as constructed
\* lines 113, 129-135
InitStatus ==
    /\ anomaly_counters = [high_cpu |-> 0, high_memory |-> 0, disk_activity |-> 0,
                           network_activity |-> 0]
    /\ system_status_data = [k \in {} |-> 0]
    /\ status_call = None
    /\ emitted = <<>>

\* no call made yet
NoCall == [py |-> "no call"]

\* line 110
InitNeural ==
    /\ neural_data = [k \in {} |-> 0]
    /\ neural_call = NoCall

\* neural_ecosystem.py lines 21-25, before the first update_system_data
MapEmpty ==
    /\ nodes = <<>>
    /\ anomalies = <<>>
    /\ a_last = NoCall

LaterOff == InitMetricsObject /\ InitStatus /\ InitNeural /\ MapEmpty

Init == InitEngine /\ InitCalls /\ DigestOff /\ InitHub /\ StagesOff /\ RenderOff /\ LaterOff

\* line 58: `except Exception` takes every exception the stages raise
ExceptionClasses == {"OSError", "ZeroDivisionError", "ValueError"}

\* an except clause that names the I/O error only
CatchesOSErrorOnly(exc) == exc = "OSError"

Catches(exc) == exc \in ExceptionClasses

\* lines 58-60: the value the handler returns
Failure(exc, path) == None

\* an exception raised in the try block of call c
Raise(c, exc) ==
    /\ raised' = [raised EXCEPT ![c] = exc]
    /\ IF Catches(exc)
       THEN /\ pc' = [pc EXCEPT ![c] = "done"]
            /\ result' = [result EXCEPT ![c] = Failure(exc, file_path[c])]
       ELSE /\ pc' = [pc EXCEPT ![c] = "escaped"]
            /\ UNCHANGED result

Finished(c) == pc[c] \in {"done", "escaped"}

\* generate_signature(file_path, evolution) is entered
Enter(c, path, flag) ==
    /\ pc[c] = "idle"
    /\ pc' = [pc EXCEPT ![c] = "hash"]
    /\ file_path' = [file_path EXCEPT ![c] = path]
    /\ evolution' = [evolution EXCEPT ![c] = flag]
    /\ rng_start' = [rng_start EXCEPT ![c] = rng]
    /\ UNCHANGED << config_vars, engine_vars, beside_pipeline, file_hash, quantum_state,
                    steps_done, signature_data, signature_image, result, raised,
                    own_pairs, seen_pairs, constructed, rounds_log >>

\* a call made when every earlier call has returned
StartCall(c) ==
    /\ \A o \in Calls : IF o < c THEN Finished(o) ELSE pc[o] = "idle"
    /\ \E path \in Paths, flag \in BOOLEAN : Enter(c, path, flag)

\* a call made from another thread, whatever the other calls are doing
StartConcurrentCall(c) ==
    \E path \in Paths \ {"missing"}, flag \in BOOLEAN : Enter(c, path, flag)

\* line 35 with the engine's list reset before the file is read
CalculateHashResetting(c) ==
    /\ pc[c] = "hash"
    /\ lists' = Append(lists, <<>>)
    /\ entanglement_pairs' = Len(lists) + 1
    /\ IF ComplexHash(file_path[c]).ok
       THEN /\ file_hash' = [file_hash EXCEPT ![c] = ComplexHash(file_path[c]).hash]
            /\ pc' = [pc EXCEPT ![c] = "construct"]
            /\ UNCHANGED << result, raised >>
       ELSE /\ Raise(c, "OSError")
            /\ UNCHANGED file_hash
    /\ UNCHANGED << config_vars, rng, beside_pipeline, file_path, evolution,
                    quantum_state, steps_done, signature_data, signature_image,
                    rng_start, own_pairs, seen_pairs, constructed, rounds_log >>

\* line 35
CalculateHash(c) ==
    /\ pc[c] = "hash"
    /\ IF ComplexHash(file_path[c]).ok
       THEN /\ file_hash' = [file_hash EXCEPT ![c] = ComplexHash(file_path[c]).hash]
            /\ pc' = [pc EXCEPT ![c] = "construct"]
            /\ UNCHANGED << result, raised >>
       ELSE /\ Raise(c, "OSError")
            /\ UNCHANGED file_hash
    /\ UNCHANGED << config_vars, engine_vars, beside_pipeline, file_path, evolution,
                    quantum_state, steps_done, signature_data, signature_image,
                    rng_start, own_pairs, seen_pairs, constructed, rounds_log >>

\* line 123 left out: the pairs go on the list the engine already holds
KeepList(ls, ref) == [lists |-> ls, ref |-> ref]

\* line 123 as self.entanglement_pairs.clear(): the list object is kept and emptied
ClearList(ls, ref) == [lists |-> [ls EXCEPT ![ref] = <<>>], ref |-> ref]

\* line 123: self.entanglement_pairs = [] names a new, empty list object
FreshList(ls, ref) == [lists |-> Append(ls, <<>>), ref |-> Len(ls) + 1]

\* line 38
HashToState(c) ==
    /\ pc[c] = "construct"
    /\ IF dimensions = 0
       THEN /\ Raise(c, "ZeroDivisionError")
            /\ UNCHANGED << engine_vars, quantum_state, own_pairs, seen_pairs, constructed >>
       ELSE \E state \in {BuildState(file_hash[c], dimensions, superposition_count, tape, rng)},
               fresh \in {FreshList(lists, entanglement_pairs)} :
            \E drawn \in {DrawPairs(fresh.lists[fresh.ref], dimensions \div 2, dimensions, tape,
                                    rng + BuildDraws(file_hash[c], superposition_count))} :
                /\ drawn.ok
                /\ quantum_state' = [quantum_state EXCEPT ![c] = state]
                /\ constructed' = [constructed EXCEPT ![c] = state]
                /\ lists' = [fresh.lists EXCEPT ![fresh.ref] = drawn.pairs]
                /\ entanglement_pairs' = fresh.ref
                /\ own_pairs' = [own_pairs EXCEPT ![c] = drawn.pairs]
                /\ seen_pairs' = [seen_pairs EXCEPT ![c] = drawn.pairs]
                /\ rng' = drawn.pos % TapeLen
                /\ pc' = [pc EXCEPT ![c] = "evolve"]
                /\ UNCHANGED << result, raised >>
    /\ UNCHANGED << config_vars, beside_pipeline, file_path, evolution, file_hash, steps_done,
                    signature_data, signature_image, rng_start, rounds_log >>

\* lines 41-42 with the flag ignored
LoopRoundsAlways(flag, N) == N

\* lines 41-42: how many times the loop body runs
LoopRounds(flag, N) == IF flag THEN N ELSE 0

\* line 43: one round of the loop
Evolve(c) ==
    /\ pc[c] = "evolve"
    /\ steps_done[c] < LoopRounds(evolution[c], evolution_steps)
    /\ IF 0 \in EvolveDivisors(quantum_state[c])
       THEN /\ Raise(c, "ZeroDivisionError")
            /\ UNCHANGED << quantum_state, rounds_log, seen_pairs, rng, steps_done >>
       ELSE /\ \E pairs \in {lists[entanglement_pairs]} :
               \E out \in {EvolveState(quantum_state[c], pairs, tape, rng)} :
                   /\ quantum_state' = [quantum_state EXCEPT ![c] = out]
                   /\ rounds_log' = [rounds_log EXCEPT
                          ![c] = Append(@, [input |-> quantum_state[c], output |-> out])]
                   /\ seen_pairs' = [seen_pairs EXCEPT ![c] = pairs]
                   /\ rng' = (rng + EntangleDraws(quantum_state[c], pairs)) % TapeLen
            /\ steps_done' = [steps_done EXCEPT ![c] = @ + 1]
            /\ UNCHANGED << pc, result, raised >>
    /\ UNCHANGED << config_vars, beside_pipeline, entanglement_pairs, lists, file_path,
                    evolution, file_hash, signature_data, signature_image,
                    rng_start, own_pairs, constructed >>

\* line 46, once the loop is over
Analyze(c) ==
    /\ pc[c] = "evolve"
    /\ steps_done[c] >= LoopRounds(evolution[c], evolution_steps)
    /\ LET pairs == lists[entanglement_pairs]
       IN  /\ signature_data' = [signature_data EXCEPT ![c] =
                  AnalyzeState(quantum_state[c], dimensions, entanglement_pairs, pairs, tape, rng)]
           /\ seen_pairs' = [seen_pairs EXCEPT ![c] = pairs]
           /\ rng' = (rng + Cardinality(DrawnCells(dimensions, pairs))) % TapeLen
    /\ pc' = [pc EXCEPT ![c] = "visualize"]
    /\ UNCHANGED << config_vars, beside_pipeline, entanglement_pairs, lists, file_path, evolution,
                    file_hash, quantum_state, steps_done, signature_image, result, raised,
                    rng_start, own_pairs, constructed, rounds_log >>

\* line 49
Render(c) ==
    /\ pc[c] = "visualize"
    /\ signature_image' = [signature_image EXCEPT ![c] = Visualize(signature_data[c], resolution)]
    /\ seen_pairs' = [seen_pairs EXCEPT ![c] = lists[signature_data[c].entanglement]]
    /\ pc' = [pc EXCEPT ![c] = "score"]
    /\ UNCHANGED << config_vars, engine_vars, beside_pipeline, file_path, evolution, file_hash,
                    quantum_state, steps_done, signature_data, result, raised,
                    rng_start, own_pairs, constructed, rounds_log >>

\* lines 51-56: the dict that is returned
ResultDict(data, image, score) ==
    [signature_data |-> data, signature_image |-> image,
     confidence |-> ConfidenceLevel, uniqueness_score |-> score]

\* lines 51-56; the call's locals end with it
Return(c) ==
    /\ pc[c] = "score"
    /\ \E fault \in {ScoreFault(signature_data[c].amplitudes, dimensions)} :
          IF fault # "none"
          THEN Raise(c, fault)
          ELSE /\ result' = [result EXCEPT ![c] =
                      ResultDict(signature_data[c], signature_image[c],
                                 Uniqueness(signature_data[c].amplitudes,
                                            lists[signature_data[c].entanglement], dimensions))]
               /\ pc' = [pc EXCEPT ![c] = "done"]
               /\ UNCHANGED raised
    /\ seen_pairs' = [seen_pairs EXCEPT ![c] = lists[signature_data[c].entanglement]]
    /\ file_hash' = [file_hash EXCEPT ![c] = <<>>]
    /\ quantum_state' = [quantum_state EXCEPT ![c] = <<>>]
    /\ signature_data' = [signature_data EXCEPT ![c] = None]
    /\ signature_image' = [signature_image EXCEPT ![c] = None]
    /\ constructed' = [constructed EXCEPT ![c] = <<>>]
    /\ rounds_log' = [rounds_log EXCEPT ![c] = <<>>]
    /\ UNCHANGED << config_vars, engine_vars, beside_pipeline, file_path, evolution, steps_done,
                    rng_start, own_pairs >>

Stage(c) ==
    \/ CalculateHash(c)
    \/ HashToState(c)
    \/ Evolve(c)
    \/ Analyze(c)
    \/ Render(c)
    \/ Return(c)

\* one engine used from one thread: a call starts when the one before has returned
Next == \E c \in Calls : StartCall(c) \/ Stage(c)

Spec == Init /\ [][Next]_vars

----------------------------------------------------------------------------
(* One engine used from several threads, a stage at a time *)

\* the smallest engine that draws a pair and evolves
InitConcurrent ==
    /\ dimensions = 2 /\ superposition_count = 1 /\ evolution_steps = 1
    /\ resolution = DefaultResolution
    /\ \E k \in 0..MaxTape : tape = TapeOf(k)
    /\ rng = 0 /\ lists = << <<>> >> /\ entanglement_pairs = 1
    /\ InitCalls
    /\ DigestOff
    /\ InitHub
    /\ StagesOff
    /\ RenderOff
    /\ LaterOff

NextConcurrent == \E c \in Calls : StartConcurrentCall(c) \/ Stage(c)

SpecConcurrent == InitConcurrent /\ [][NextConcurrent]_vars

----------------------------------------------------------------------------
(* The Digest Combiner's two paths on the same bytes *)

InitDigest ==
    /\ dimensions = MaxD /\ superposition_count = MaxS /\ evolution_steps = MaxN
    /\ resolution = DefaultResolution
    /\ tape = TapeOf(0) /\ rng = 0 /\ lists = << <<>> >> /\ entanglement_pairs = 1
    /\ InitCalls
    /\ d_pc = "start"
    /\ d_content \in Contents
    /\ d_hashers = NewHashers
    /\ d_offset = 0
    /\ d_whole = <<>>
    /\ d_streamed = <<>>
    /\ InitHub
    /\ StagesOff
    /\ RenderOff
    /\ LaterOff

\* lines 67-77 on the content
HashWholeFile ==
    /\ d_pc # "off"
    /\ d_whole = <<>>
    /\ d_whole' = WholeFileHash(d_content)
    /\ UNCHANGED << beside_digest,
                    d_pc, d_content, d_hashers, d_offset, d_streamed >>

\* lines 85-88: a chunk is read and fed to the hashers
ReadChunk ==
    /\ d_pc \in {"start", "reading"}
    /\ ReadAt(d_content, d_offset) # <<>>
    /\ d_hashers' = UpdateAll(d_hashers, ReadAt(d_content, d_offset))
    /\ d_offset' = d_offset + Len(ReadAt(d_content, d_offset))
    /\ d_pc' = "reading"
    /\ UNCHANGED << beside_digest, d_content, d_whole, d_streamed >>

\* lines 85, 90-91: the read returns b"" and the digests are combined
EndOfFile ==
    /\ d_pc \in {"start", "reading"}
    /\ ReadAt(d_content, d_offset) = <<>>
    /\ d_streamed' = CombineHashers(d_hashers)
    /\ d_pc' = "done"
    /\ UNCHANGED << beside_digest,
                    d_content, d_hashers, d_offset, d_whole >>

NextDigest == HashWholeFile \/ ReadChunk \/ EndOfFile

SpecDigest == InitDigest /\ [][NextDigest]_vars

----------------------------------------------------------------------------
(* The metrics aggregator (integration_hub.py, IntegrationHub), scores in 1/Milli *)

\* line 125: protection_weights['quantum_signatures'] = 0.3
QuantumWeight == 300
\* line 296: the uniqueness above which a stored signature is a threat (0.9)
ThreatThreshold == 900
\* lines 386, 395, 396: the default 0.5
Half == 500
\* line 447: the length the threat history is cut to (1000)
HistoryCap == 3

HubPaths == {"a.bin", "b.bin"}

\* what a caller stores: results as generate_signature returns them, dicts keyed
\* `uniqueness`, and the None of a failed call
HubInputs ==
    {ResultDict(None, None, u) : u \in {0, 300, 950, Milli}}
    \cup {[uniqueness |-> u, confidence |-> 800] : u \in {300, Milli}}
    \cup {None}

\* line 266: isinstance(signature_data, dict)
IsDict(data) == data # None

\* dict.get(key, default)
Get(data, key, default) == IF key \in DOMAIN data THEN data[key] ELSE default

\* line 269: self.quantum_signatures[file_path] = signature_data (a dict keeps the
\* order in which its keys were first set)
DictSet(items, path, data) ==
    IF \E k \in DOMAIN items : items[k].path = path
    THEN [k \in DOMAIN items |->
             IF items[k].path = path THEN [path |-> path, data |-> data] ELSE items[k]]
    ELSE Append(items, [path |-> path, data |-> data])

\* lines 441-448 (the timestamp is left out)
RecordThreat(history, threat) ==
    LET longer == Append(history, threat)
    IN  IF Len(longer) > HistoryCap
        THEN SubSeq(longer, Len(longer) - HistoryCap + 1, Len(longer))
        ELSE longer

\* lines 293-310 looking at the path stored last only
AnalyzeNewestOnly(history, items) ==
    IF items = <<>> \/ Get(items[Len(items)].data, "uniqueness_score", 0) <= ThreatThreshold
    THEN history
    ELSE RecordThreat(history,
                      [type |-> "quantum_anomaly", source |-> "quantum_signatures",
                       file_path |-> items[Len(items)].path,
                       uniqueness_score |-> items[Len(items)].data.uniqueness_score])

\* lines 297-301: the signals of one pass over the stored signatures
RECURSIVE QuantumSignals(_)
QuantumSignals(items) ==
    IF items = <<>> THEN <<>>
    ELSE (IF Get(Head(items).data, "uniqueness_score", 0) > ThreatThreshold
          THEN << [type |-> "quantum signature",
                   confidence |-> Head(items).data.uniqueness_score,
                   source |-> "Quantum Signatures"] >>
          ELSE <<>>)
         \o QuantumSignals(Tail(items))

\* lines 293-310: every stored signature above the threshold is recorded again
RECURSIVE AnalyzeQuantumThreats(_, _)
AnalyzeQuantumThreats(history, items) ==
    IF items = <<>> THEN history
    ELSE AnalyzeQuantumThreats(
             IF Get(Head(items).data, "uniqueness_score", 0) > ThreatThreshold
             THEN RecordThreat(history,
                               [type |-> "quantum_anomaly", source |-> "quantum_signatures",
                                file_path |-> Head(items).path,
                                uniqueness_score |-> Head(items).data.uniqueness_score])
             ELSE history,
             Tail(items))

\* lines 393-399, 406-407: the mean of one field over the stored signatures
FieldMean(items, key) ==
    SumSeq([k \in DOMAIN items |-> Get(items[k].data, key, Half)]) \div Len(items)

\* lines 383-410
CalculateQuantumScore(items) ==
    IF items = <<>> THEN Half
    ELSE (7 * FieldMean(items, "uniqueness") + 3 * FieldMean(items, "confidence")) \div 10

\* lines 332-366 with the quantum component the only one that can be active
UpdateProtectionScore(status, items) ==
    IF status.quantum_signatures
    THEN (CalculateQuantumScore(items) * QuantumWeight) \div QuantumWeight
    ELSE 0

\* lines 263-276
UpdateQuantumSignature(path, data) ==
    /\ IF ~IsDict(data)
       THEN /\ components_status' = [components_status EXCEPT !.quantum_signatures = FALSE]
            /\ emitted' = <<>>
            /\ UNCHANGED << quantum_signatures, threat_history, protection_score >>
       ELSE \E items \in {DictSet(quantum_signatures, path, data)} :
               /\ quantum_signatures' = items
               /\ emitted' = QuantumSignals(items)
               /\ components_status' = [components_status EXCEPT !.quantum_signatures = TRUE]
               /\ threat_history' = AnalyzeQuantumThreats(threat_history, items)
               /\ protection_score' =
                      UpdateProtectionScore([components_status EXCEPT
                                                !.quantum_signatures = TRUE], items)
    /\ UNCHANGED << signature_side, metrics_vars, anomaly_counters, system_status_data,
                    status_call, neural_vars, map_vars >>

\* the engine at rest with the largest configuration
InitEngineLargest ==
    /\ dimensions = MaxD /\ superposition_count = MaxS /\ evolution_steps = MaxN
    /\ resolution = DefaultResolution
    /\ tape = TapeOf(0) /\ rng = 0 /\ lists = << <<>> >> /\ entanglement_pairs = 1

\* the signature engine at rest
SignatureAtRest == InitEngineLargest /\ InitCalls /\ DigestOff /\ StagesOff /\ RenderOff

InitHubOnly == SignatureAtRest /\ InitHub /\ LaterOff

NextHub == \E path \in HubPaths, data \in HubInputs : UpdateQuantumSignature(path, data)

SpecHub == InitHubOnly /\ [][NextHub]_vars

----------------------------------------------------------------------------
(* IntegrationMetrics.update_metrics and IntegrationHub._record_threat: the two     *)
(* histories                                                                        *)

MaxHistory == 3
MaxUpdates == 5

\* the components update_metrics is called for
MetricComponents == {"neural", "quantum", "unknown"}

\* the new_metrics it is called with
NewMetrics == {[anomaly_score |-> 5], [anomaly_score |-> 9, active_threats |-> 1],
               [suspicious_files |-> 2]}

\* the threats _record_threat is called with
ThreatInputs ==
    {[type |-> "quantum_anomaly", source |-> "quantum_signatures", file_path |-> f,
      uniqueness_score |-> 950] : f \in HubPaths}

\* dict.update(other)
DictUpdate(d, other) ==
    [k \in DOMAIN d \cup DOMAIN other |-> IF k \in DOMAIN other THEN other[k] ELSE d[k]]

\* lines 60-61 keeping the oldest records: the record appended is dropped
CapNewestDropped(history, cap) ==
    IF Len(history) > cap THEN SubSeq(history, 1, Len(history) - 1) ELSE history

\* lines 60-61: if len(history) > max_history: history.pop(0)
CapHistory(history, cap) == IF Len(history) > cap THEN Tail(history) ELSE history

\* lines 48-64.  self.metrics.copy() copies the outer dict: the record holds the
\* three inner dict objects themselves.
UpdateMetrics(component, new_metrics) ==
    /\ m_clock < MaxUpdates
    /\ IF component \in DOMAIN metrics
       THEN /\ m_objects' = [m_objects EXCEPT ![metrics[component]] = DictUpdate(@, new_metrics)]
            /\ metrics_history' =
                   CapHistory(Append(metrics_history,
                                     [timestamp |-> m_clock + 1, metrics |-> metrics]),
                              MaxHistory)
            /\ m_clock' = m_clock + 1
       ELSE UNCHANGED << m_objects, metrics_history, m_clock >>
    /\ UNCHANGED << signature_side, hub_vars, metrics, status_vars, neural_vars, map_vars >>

\* lines 441-448 called with one threat
RecordThreatCall(threat) ==
    /\ threat_history' = RecordThreat(threat_history, threat)
    /\ UNCHANGED << signature_side, quantum_signatures, components_status, protection_score,
                    later_vars >>

InitHistories == SignatureAtRest /\ InitHub /\ LaterOff

NextHistories ==
    \/ \E component \in MetricComponents, new_metrics \in NewMetrics :
           UpdateMetrics(component, new_metrics)
    \/ \E threat \in ThreatInputs : RecordThreatCall(threat)

SpecHistories == InitHistories /\ [][NextHistories]_vars

----------------------------------------------------------------------------
(* IntegrationHub.update_system_status: the anomaly counters *)

MaxCounter == 10
CpuLimit == 80
MemoryLimit == 85
PersistLimit == 5
ConfidenceCap == 900

\* the status_info of a call: readings at and above the limits, a dict without
\* the two keys, and something that is no dict
StatusInputs ==
    {[cpu_percent |-> c, memory_percent |-> m] : c \in {CpuLimit, CpuLimit + 1},
                                                m \in {MemoryLimit, MemoryLimit + 1}}
    \cup {[disk_percent |-> 99], None}

\* the order of self.anomaly_counters.items()
CounterNames == << "high_cpu", "high_memory", "disk_activity", "network_activity" >>

\* f"system_{counter_name}"
ThreatName ==
    [high_cpu |-> "system_high_cpu", high_memory |-> "system_high_memory",
     disk_activity |-> "system_disk_activity", network_activity |-> "system_network_activity"]

\* lines 182-185, 187-190: one counter after a reading
Counted(counter, reading, limit) ==
    IF reading > limit THEN counter + 1 ELSE Max(0, counter - 1)

\* line 194 with >= for >
PersistentFromLimit(counter_value) == counter_value >= PersistLimit

\* line 194: if counter_value > 5
Persistent(counter_value) == counter_value > PersistLimit

\* line 195: min(counter_value / 10, 0.9), in 1/Milli
ThreatConfidence(counter_value) == Min((counter_value * Milli) \div 10, ConfidenceCap)

\* lines 193-200: the signals of one pass over the counters
RECURSIVE StatusSignals(_, _)
StatusSignals(counters, names) ==
    IF names = <<>> THEN <<>>
    ELSE (IF Persistent(counters[Head(names)])
          THEN << [type |-> ThreatName[Head(names)],
                   confidence |-> ThreatConfidence(counters[Head(names)]),
                   source |-> "system_monitor"] >>
          ELSE <<>>)
         \o StatusSignals(counters, Tail(names))

\* lines 169-204
UpdateSystemStatus(status_info) ==
    /\ status_call' = status_info
    /\ IF ~IsDict(status_info)
       THEN /\ emitted' = <<>>
            /\ UNCHANGED << anomaly_counters, system_status_data >>
       ELSE \E counters \in
                 {[anomaly_counters EXCEPT
                      !.high_cpu = Counted(@, Get(status_info, "cpu_percent", 0), CpuLimit),
                      !.high_memory = Counted(@, Get(status_info, "memory_percent", 0),
                                              MemoryLimit)]} :
               /\ counters.high_cpu <= MaxCounter
               /\ counters.high_memory <= MaxCounter
               /\ system_status_data' = status_info
               /\ anomaly_counters' = counters
               /\ emitted' = StatusSignals(counters, CounterNames)
    /\ UNCHANGED << signature_side, hub_vars, metrics_vars, neural_vars, map_vars >>

InitSystemStatus == SignatureAtRest /\ InitHub /\ LaterOff

NextSystemStatus == \E status_info \in StatusInputs : UpdateSystemStatus(status_info)

SpecSystemStatus == InitSystemStatus /\ [][NextSystemStatus]_vars

----------------------------------------------------------------------------
(* IntegrationHub.update_neural_data *)

NeuralWeight == 400
AnomalyLimit == 800

\* a process dict as _analyze_neural_threats reads it, and one as
\* _calculate_neural_score reads it
ProcessDicts ==
    {[name |-> "chrome", id |-> 1, cpu |-> 5, memory |-> 100],
     [name |-> "cryptominer", id |-> 2, cpu |-> 95, memory |-> 600],
     [anomaly_score |-> 900]}

\* the 'processes' of a data dict: a list of process dicts, or a dict whose values
\* are process dicts (items holds the list's elements or the dict's values)
ProcessContainers ==
    {[kind |-> k, items |-> i] : k \in {"list", "dict"},
                                 i \in {<<>>} \cup {<< p >> : p \in ProcessDicts}}

\* the data of a call: something that is no dict, the empty dict, a dict without
\* processes, dicts with processes
NeuralInputs ==
    {None, [k \in {} |-> 0], [system_health |-> Milli]}
    \cup {[system_health |-> Milli, processes |-> c] : c \in ProcessContainers}

\* lines 222-229: sus_name in process_name.lower(), for the names above
Suspicious(process_name) == process_name \in {"cryptominer", "hidden", "stealer", "trojan"}

\* lines 225-239: max(name_score, resource_score), in 1/Milli
ProcessScore(process) ==
    Max(IF Suspicious(Get(process, "name", "unknown")) THEN 800 ELSE 0,
        IF Get(process, "cpu", 0) > 80 /\ Get(process, "memory", 0) > 500 THEN 700
        ELSE IF Get(process, "cpu", 0) > 90 \/ Get(process, "memory", 0) > 1000 THEN 600
        ELSE 0)

\* lines 214-259 over a list of process dicts: the threats recorded
RECURSIVE NeuralThreats(_)
NeuralThreats(processes) ==
    IF processes = <<>> THEN <<>>
    ELSE (IF ProcessScore(Head(processes)) > Half
          THEN << [type |-> "suspicious_process",
                   confidence |-> ProcessScore(Head(processes)),
                   source |-> "neural_ecosystem"] >>
          ELSE <<>>)
         \o NeuralThreats(Tail(processes))

\* lines 206-261.  Iterating a dict gives its keys, which have no get(): the
\* AttributeError at the first key is caught inside (line 260) and nothing is found.
AnalyzeNeuralThreats(data) ==
    IF data = [k \in {} |-> 0] \/ "processes" \notin DOMAIN data THEN <<>>
    ELSE IF data.processes.kind = "list" THEN NeuralThreats(data.processes.items)
    ELSE <<>>

RECURSIVE RecordAll(_, _)
RecordAll(history, threats) ==
    IF threats = <<>> THEN history
    ELSE RecordAll(RecordThreat(history, Head(threats)), Tail(threats))

\* lines 375-376: self.neural_data.get('processes', {}).values() has no meaning for
\* a list, which has no values(): AttributeError
NeuralScoreFault(data) ==
    IF data # [k \in {} |-> 0] /\ "processes" \in DOMAIN data /\ data.processes.kind = "list"
    THEN "AttributeError" ELSE "none"

\* lines 368-381, in 1/Milli
CalculateNeuralScore(data) ==
    IF data = [k \in {} |-> 0] THEN 0
    ELSE LET processes == IF "processes" \in DOMAIN data THEN data.processes.items ELSE <<>>
             anomaly_count ==
                 Cardinality({k \in DOMAIN processes :
                                 Get(processes[k], "anomaly_score", 0) > AnomalyLimit})
         IN  Max(0, (7 * Get(data, "system_health", 0)) \div 10
                    - Min(300, anomaly_count * 100))

\* lines 154-167; the neural component is the only one that can be active
UpdateNeuralData(data) ==
    /\ neural_call' = data
    /\ IF ~IsDict(data)
       THEN /\ components_status' = [components_status EXCEPT !.neural_ecosystem = FALSE]
            /\ emitted' = <<>>
            /\ UNCHANGED << neural_data, threat_history, protection_score >>
       ELSE /\ neural_data' = data
            /\ emitted' = AnalyzeNeuralThreats(data)
            /\ threat_history' = RecordAll(threat_history, AnalyzeNeuralThreats(data))
            /\ IF NeuralScoreFault(data) # "none"
               THEN /\ components_status' =
                           [components_status EXCEPT !.neural_ecosystem = FALSE]
                    /\ UNCHANGED protection_score
               ELSE /\ components_status' =
                           [components_status EXCEPT !.neural_ecosystem = TRUE]
                    /\ protection_score' =
                           (CalculateNeuralScore(data) * NeuralWeight) \div NeuralWeight
    /\ UNCHANGED << signature_side, quantum_signatures, metrics_vars, anomaly_counters,
                    system_status_data, status_call, map_vars >>

InitNeuralHub == SignatureAtRest /\ InitHub /\ LaterOff

NextNeuralHub == \E data \in NeuralInputs : UpdateNeuralData(data)

SpecNeuralHub == InitNeuralHub /\ [][NextNeuralHub]_vars

----------------------------------------------------------------------------
(* NeuralEcosystemMap (neural_ecosystem.py): update_animation and                  *)
(* update_system_data, both run by timers of the one GUI thread.  Intensities are  *)
(* in units of 0.05.                                                                *)

MaxAnomalies == 2
Full == 20

\* random.uniform(-0.1, 0.15): the two ends
AnimDraws == {-2, 3}

\* the processes psutil reports: none, or one
ProcessLists == {<<>>, << 1 >>}

\* list.remove(x): the first element equal to x is taken out
RemoveFirst(list, x) ==
    IF \E k \in DOMAIN list : list[k] = x
    THEN LET first == CHOOSE k \in DOMAIN list :
                          list[k] = x /\ \A o \in 1..(k - 1) : list[o] # x
         IN  SubSeq(list, 1, first - 1) \o SubSeq(list, first + 1, Len(list))
    ELSE list

\* line 72 with < for <=
GoneBelowZero(intensity) == intensity < 0

\* line 72: if anomaly['intensity'] <= 0
Gone(intensity) == intensity <= 0

\* lines 70-73: the list iterator stands at position idx (1-based) of the list as
\* it is now; a removal moves the later elements down and the iterator on
RECURSIVE AnimateAnomalies(_, _, _)
AnimateAnomalies(list, idx, draws) ==
    IF idx > Len(list) THEN list
    ELSE LET updated == [list EXCEPT ![idx].intensity = Min(Full, @ + Head(draws))]
         IN  AnimateAnomalies(IF Gone(updated[idx].intensity)
                              THEN RemoveFirst(updated, updated[idx]) ELSE updated,
                              idx + 1, Tail(draws))

\* lines 54-75 (pulse_factor, energy_flow and the nodes' places bear on no anomaly)
UpdateAnimation ==
    /\ \E draws \in [1..Len(anomalies) -> AnimDraws] :
          /\ a_last' = [before |-> anomalies, draws |-> draws]
          /\ anomalies' = AnimateAnomalies(anomalies, 1, draws)
    /\ UNCHANGED << signature_side, hub_vars, metrics_vars, status_vars, neural_vars, nodes >>

\* lines 77-141: the nodes are rebuilt; with one chance in ten an anomaly of full
\* intensity is put at a node (random.choice of no node raises IndexError, which
\* line 140 catches)
UpdateSystemData ==
    /\ \E processes \in ProcessLists, chance \in BOOLEAN :
          /\ nodes' = processes
          /\ IF chance /\ processes # <<>>
             THEN /\ Len(anomalies) < MaxAnomalies
                  /\ anomalies' = Append(anomalies, [x |-> processes[1], intensity |-> Full])
             ELSE UNCHANGED anomalies
    /\ UNCHANGED << signature_side, hub_vars, metrics_vars, status_vars, neural_vars, a_last >>

\* lines 16-52: the constructor ends with a first update_system_data
InitMap ==
    /\ SignatureAtRest /\ InitHub /\ InitMetricsObject /\ InitStatus /\ InitNeural
    /\ nodes \in ProcessLists
    /\ anomalies \in {<<>>} \cup {<< [x |-> nodes[1], intensity |-> Full] >> : k \in DOMAIN nodes}
    /\ a_last = NoCall

NextMap == UpdateAnimation \/ UpdateSystemData

SpecMap == InitMap /\ [][NextMap]_vars

----------------------------------------------------------------------------
(* The stages called one at a time, the coupling loop a step at a time: on a state  *)
(* the constructor builds from a short digest, and on a state and a coupling list  *)
(* handed to the evolver or the analyzer directly                                   *)

MaxPairs == 2
MaxStageTape == 2

\* the digests a state is constructed from
StageDigests == { <<255, 0, 64, 255>>, <<0, 0, 255, 128>>, <<128, 255, 64, 0>> }

\* the variant vectors of a state handed in directly
StageVariants == { <<One>>, <<0>>, <<One \div 4, 3 * (One \div 4)>> }

\* the states handed in directly: two dimensions of one or two variants, or three
\* dimensions of one variant
StageStates ==
    [1..2 -> [1..1 -> StageVariants]] \cup [1..2 -> [1..2 -> StageVariants]]
    \cup [1..3 -> [1..1 -> StageVariants]]

\* the pairs a coupling list handed in directly is made of
StagePairs(D) == {p \in {<<0, 1>>, <<1, 0>>, <<1, 2>>, <<2, 0>>} : p[1] < D /\ p[2] < D}

\* _hash_to_quantum_state is called on a digest
InitStageConstruct ==
    /\ s_pc = "construct"
    /\ s_hash \in StageDigests
    /\ s_state = <<>>
    /\ dimensions = 2
    /\ superposition_count \in 1..2
    /\ evolution_steps = MaxN
    /\ lists = << <<>> >>

\* _evolve_quantum_state or _analyze_quantum_state is called on a state, with a
\* coupling list in the engine's field
InitStageDirect ==
    /\ s_pc = "loop"
    /\ s_hash = <<>>
    /\ s_state \in StageStates
    /\ dimensions = Len(s_state)
    /\ superposition_count = Len(s_state[1])
    /\ evolution_steps \in {0, MaxN}
    /\ \E pairs \in SeqsUpTo(StagePairs(Len(s_state)), MaxPairs) : lists = << pairs >>

InitStages ==
    /\ InitStageConstruct \/ InitStageDirect
    /\ resolution = DefaultResolution
    /\ \E k \in 0..MaxStageTape : tape = TapeOf(k)
    /\ rng = 0
    /\ entanglement_pairs = 1
    /\ s_before = [state |-> <<>>, rng |-> 0]
    /\ s_round = 0 /\ s_pair = 1 /\ s_variant = 1
    /\ s_data = None /\ s_score = 0
    /\ InitCalls /\ DigestOff /\ InitHub /\ RenderOff /\ LaterOff

\* lines 98-131
StageConstruct ==
    /\ s_pc = "construct"
    /\ \E fresh \in {FreshList(lists, entanglement_pairs)} :
       \E drawn \in {DrawPairs(fresh.lists[fresh.ref], dimensions \div 2, dimensions, tape,
                               rng + BuildDraws(s_hash, superposition_count))} :
           /\ drawn.ok
           /\ s_state' = BuildState(s_hash, dimensions, superposition_count, tape, rng)
           /\ lists' = [fresh.lists EXCEPT ![fresh.ref] = drawn.pairs]
           /\ entanglement_pairs' = fresh.ref
           /\ rng' = drawn.pos % TapeLen
    /\ s_pc' = "loop"
    /\ UNCHANGED << config_vars, beside_stages, s_hash, s_before, s_round, s_pair, s_variant,
                    s_data, s_score >>

\* lines 138-157: the gates on every variant of every dimension
StageGates ==
    /\ s_pc = "loop"
    /\ s_round < evolution_steps
    /\ s_before' = [state |-> s_state, rng |-> rng]
    /\ s_state' = Gates(s_state)
    /\ s_pair' = 1
    /\ s_variant' = 1
    /\ s_pc' = "couple"
    /\ UNCHANGED << config_vars, engine_vars, beside_stages, s_hash, s_round, s_data, s_score >>

\* the variants the coupling loop visits for the pair at index k of the list
StageVariantCount(state, pairs, k) ==
    Min(Len(state[pairs[k][1] + 1]), Len(state[pairs[k][2] + 1]))

\* lines 162-169: the coin of one variant index of one pair, and the coupling if it
\* falls that way
StageCouple ==
    /\ s_pc = "couple"
    /\ s_pair <= Len(lists[entanglement_pairs])
    /\ s_variant <= StageVariantCount(s_state, lists[entanglement_pairs], s_pair)
    /\ s_state' = IF Coin(RawAt(tape, rng))
                  THEN EntangleVariant(s_state, lists[entanglement_pairs][s_pair][1],
                                       lists[entanglement_pairs][s_pair][2], s_variant)
                  ELSE s_state
    /\ rng' = (rng + 1) % TapeLen
    /\ IF s_variant < StageVariantCount(s_state, lists[entanglement_pairs], s_pair)
       THEN s_variant' = s_variant + 1 /\ s_pair' = s_pair
       ELSE s_variant' = 1 /\ s_pair' = s_pair + 1
    /\ UNCHANGED << config_vars, entanglement_pairs, lists, beside_stages, s_pc, s_hash,
                    s_before, s_round, s_data, s_score >>

\* line 171: the round returns
StageRoundEnd ==
    /\ s_pc = "couple"
    /\ s_pair > Len(lists[entanglement_pairs])
    /\ s_round' = s_round + 1
    /\ s_pc' = "loop"
    /\ UNCHANGED << config_vars, engine_vars, beside_stages, s_hash, s_state, s_before,
                    s_pair, s_variant, s_data, s_score >>

\* lines 173-204
StageAnalyze ==
    /\ s_pc = "loop"
    /\ s_round >= evolution_steps
    /\ s_data' = AnalyzeState(s_state, dimensions, entanglement_pairs,
                               lists[entanglement_pairs], tape, rng)
    /\ rng' = (rng + Cardinality(DrawnCells(dimensions, lists[entanglement_pairs]))) % TapeLen
    /\ s_pc' = "score"
    /\ UNCHANGED << config_vars, entanglement_pairs, lists, beside_stages, s_hash, s_state,
                    s_before, s_round, s_pair, s_variant, s_score >>

\* lines 308-326
StageScore ==
    /\ s_pc = "score"
    /\ ScoreFault(s_data.amplitudes, dimensions) = "none"
    /\ s_score' = Uniqueness(s_data.amplitudes, lists[s_data.entanglement], dimensions)
    /\ s_pc' = "done"
    /\ UNCHANGED << config_vars, engine_vars, beside_stages, s_hash, s_state, s_before,
                    s_round, s_pair, s_variant, s_data >>

NextStages ==
    \/ StageConstruct
    \/ StageGates
    \/ StageCouple
    \/ StageRoundEnd
    \/ StageAnalyze
    \/ StageScore

SpecStages == InitStages /\ [][NextStages]_vars

----------------------------------------------------------------------------
(* The Visual Renderer (_visualize_quantum_signature) a pixel at a time *)

MaxR == 4
MaxRenderD == 6

\* R / D is a float without rounding exactly when D / gcd(R, D) is a power of two
IsPowerOfTwo(n) == n = Pow(2, FloorLog2(n))

RECURSIVE Gcd(_, _)
Gcd(a, b) == IF b = 0 THEN a ELSE Gcd(b, a % b)

\* lines 219-220 rounding up: the cell above the quotient
CellOfCeiling(y, R, D) == {(y * D + R - 1) \div R}

\* lines 213-214, 219-220: int(y / (R / D)).  The cell size is rounded to a float
\* unless it is dyadic; where the exact quotient y * D / R is a whole number the
\* float quotient is then that number or falls just below it.
CellOf(y, R, D) ==
    {(y * D) \div R}
    \cup (IF y > 0 /\ (y * D) % R = 0 /\ ~IsPowerOfTwo(D \div Gcd(R, D))
          THEN {(y * D) \div R - 1} ELSE {})

\* the digest the drawn data is analyzed from
RenderDigest == [k \in 1..DigestLen |-> (k * 37) % 256]

\* the signature data the renderer is handed: the analysis of a constructed state
RenderData(D) ==
    AnalyzeState(BuildState(RenderDigest, D, 1, TapeOf(0), 0), D, 1, <<>>, TapeOf(0), 0)

InitRender ==
    /\ dimensions \in 0..MaxRenderD
    /\ resolution \in 0..MaxR
    /\ superposition_count = 1
    /\ evolution_steps = 0
    /\ tape = TapeOf(0)
    /\ rng = 0
    /\ lists = << <<>> >>
    /\ entanglement_pairs = 1
    /\ r_pc = "open"
    /\ r_x = 0
    /\ r_y = 0
    /\ r_size = None
    /\ r_data = IF dimensions = 0 THEN None ELSE RenderData(dimensions)
    /\ r_painted = <<>>
    /\ InitCalls /\ DigestOff /\ InitHub /\ StagesOff /\ LaterOff

\* lines 209-214: the image is created, then the cell size is divided out
RenderOpen ==
    /\ r_pc = "open"
    /\ r_size' = [width |-> resolution, height |-> resolution]
    /\ r_pc' = IF dimensions = 0 THEN "ZeroDivisionError" ELSE "fill"
    /\ UNCHANGED << beside_render, r_x, r_y, r_data, r_painted >>

\* lines 217-256: one pixel of the grid fill
RenderPixel ==
    /\ r_pc = "fill"
    /\ r_y < resolution
    /\ \E i \in CellOf(r_y, resolution, dimensions), j \in CellOf(r_x, resolution, dimensions) :
          IF i < dimensions /\ j < dimensions
          THEN r_painted' =
                  [p \in DOMAIN r_painted \cup {<< r_x, r_y >>} |->
                      IF p = << r_x, r_y >>
                      THEN [cell |-> << i, j >>,
                            amplitude |-> r_data.amplitudes[i + 1][j + 1],
                            phase |-> r_data.phases[i + 1][j + 1]]
                      ELSE r_painted[p]]
          ELSE UNCHANGED r_painted
    /\ IF r_x + 1 < resolution
       THEN r_x' = r_x + 1 /\ r_y' = r_y
       ELSE r_x' = 0 /\ r_y' = r_y + 1
    /\ UNCHANGED << beside_render, r_pc, r_size, r_data >>

\* lines 259-306: the lines are drawn into the image, which is returned as a QImage
\* of the image's width and height
RenderFinish ==
    /\ r_pc = "fill"
    /\ r_y >= resolution
    /\ r_pc' = "done"
    /\ UNCHANGED << beside_render, r_x, r_y, r_size, r_data, r_painted >>

NextRender ==
    \/ RenderOpen
    \/ RenderPixel
    \/ RenderFinish

SpecRender == InitRender /\ [][NextRender]_vars

----------------------------------------------------------------------------
(* Properties *)

ResultFields == {"signature_data", "signature_image", "confidence", "uniqueness_score"}

IsResult(c) == pc[c] = "done" /\ result[c] # None

\* a call that has constructed its state and not yet returned
Analyzed(c) == pc[c] \in {"visualize", "score"}

\* C1: when calls on one engine interleave, every stage of a call (evolution,
\* analysis, rendering, scoring) reads the coupling pairs that the call's own state
\* construction generated, never those of another call.
C1_OwnPairs ==
    \A c \in Calls :
        (pc[c] \in {"evolve", "visualize", "score"} \/ (pc[c] = "done" /\ raised[c] = "none"))
            => seen_pairs[c] = own_pairs[c]

\* C2: right after a state construction with D >= 2 the engine's coupling list holds
\* exactly floor(D/2) pairs, each of two different indices in 0..D-1.
C2_PairsWellFormed ==
    \A c \in Calls :
        (pc[c] = "evolve" /\ steps_done[c] = 0 /\ dimensions >= 2) =>
            LET pairs == lists[entanglement_pairs]
            IN  /\ Len(pairs) = dimensions \div 2
                /\ \A p \in DOMAIN pairs :
                      /\ pairs[p][1] # pairs[p][2]
                      /\ pairs[p][1] \in 0..(dimensions - 1)
                      /\ pairs[p][2] \in 0..(dimensions - 1)

\* a second call's construction with two pairs that share an index
C2_Witness ==
    /\ pc[2] = "evolve" /\ steps_done[2] = 0 /\ dimensions = 4
    /\ LET pairs == lists[entanglement_pairs]
       IN  Len(pairs) = 2 /\ pairs[1][1] \in {pairs[2][1], pairs[2][2]}

\* the sum of the quotients of a row, in lowest terms (every d # 0)
RECURSIVE RowSum(_)
RowSum(row) ==
    IF row = <<>> THEN Zero
    ELSE LET rest == RowSum(Tail(row))
             n == Head(row).n * rest.d + rest.n * Head(row).d
             d == Head(row).d * rest.d
         IN  [n |-> n \div Gcd(n, d), d |-> d \div Gcd(n, d)]

RowIsZero(row) == \A j \in DOMAIN row : row[j].n = 0

\* C3: every row of an amplitude matrix the analyzer returns sums to 1 or is all
\* zero; it is all zero exactly when its sum before normalization was zero; no entry
\* is a division by zero.
C3_RowStochastic ==
    \A c \in Calls :
        Analyzed(c) =>
            \A collapsed \in {Collapsed(quantum_state[c], dimensions)} :
                \A i \in 1..dimensions :
                    \A row \in {signature_data[c].amplitudes[i]} :
                        /\ \A j \in DOMAIN row : row[j].d # 0
                        /\ RowIsZero(row) <=> SumSeq(collapsed[i]) = 0
                        /\ RowIsZero(row) \/ RowSum(row) = [n |-> 1, d |-> 1]

\* an evolved state whose matrix has a zero row, and a row of several non-zero entries
C3_Witness ==
    \E c \in Calls :
        /\ Analyzed(c) /\ steps_done[c] > 0
        /\ \E i \in 1..dimensions : RowIsZero(signature_data[c].amplitudes[i])
        /\ \E i \in 1..dimensions :
              Cardinality({j \in 1..dimensions : signature_data[c].amplitudes[i][j].n > 0}) > 1

\* C4: the uniqueness score generate_signature returns is in [0, 1].
C4_UniquenessInRange ==
    \A c \in Calls :
        IsResult(c) => result[c].uniqueness_score \in 0..Milli

\* the empty file, not evolved, scored
C4_Witness ==
    \E c \in Calls :
        /\ IsResult(c) /\ file_path[c] = "empty" /\ ~evolution[c]
        /\ result[c].uniqueness_score > 0

\* C5: the whole-file path and the streamed path give the same digest, of the same
\* fixed length, for the same bytes.
C5_SameDigest ==
    (d_whole # <<>> /\ d_streamed # <<>>) =>
        /\ d_whole = d_streamed
        /\ Len(d_whole) = DigestLen
        /\ Len(d_streamed) = DigestLen

\* a content streamed in several chunks, the last one short
C5_Witness ==
    /\ d_whole # <<>> /\ d_streamed # <<>>
    /\ Len(d_content) > ChunkBytes
    /\ Len(d_content) % ChunkBytes # 0

\* C6: no exception escapes generate_signature; a call in which a stage raised
\* returns a value with none of the result fields, any other call returns all four.
C6_NoEscapeNoPartial ==
    \A c \in Calls :
        /\ pc[c] # "escaped"
        /\ pc[c] = "done" =>
              IF raised[c] # "none"
              THEN DOMAIN result[c] \cap ResultFields = {}
              ELSE DOMAIN result[c] = ResultFields

\* a call that failed in the state constructor, then one that failed on its path
C6_Witness ==
    /\ pc[1] = "done" /\ raised[1] = "ZeroDivisionError"
    /\ pc[2] = "done" /\ raised[2] = "OSError"

\* C7: a call that fails on a missing or unreadable path returns a tagged I/O error
\* with the failing path attached.
C7_TaggedFailure ==
    \A c \in Calls :
        (pc[c] = "done" /\ raised[c] = "OSError") =>
            /\ {"error", "path"} \subseteq DOMAIN result[c]
            /\ result[c].error = "io"
            /\ result[c].path = file_path[c]

\* C8: no generate_signature call runs on an engine whose dimension count, variant
\* count or resolution is <= 0.
C8_RejectedAtConstruction ==
    \A c \in Calls :
        pc[c] # "idle" => dimensions > 0 /\ superposition_count > 0 /\ resolution > 0

\* C9: the evolver has run exactly N times (flag true) or not at all (flag false)
\* when the analysis is made; each round takes the output of the round before, the
\* first the constructed state, and the analysis the output of the last.
C9_RoundsChained ==
    \A c \in Calls :
        /\ pc[c] = "evolve" => Len(rounds_log[c]) <= evolution_steps
        /\ Analyzed(c) =>
              LET log == rounds_log[c]
              IN  /\ Len(log) = (IF evolution[c] THEN evolution_steps ELSE 0)
                  /\ \A k \in DOMAIN log :
                        log[k].input = (IF k = 1 THEN constructed[c] ELSE log[k - 1].output)
                  /\ quantum_state[c] =
                        (IF log = <<>> THEN constructed[c] ELSE log[Len(log)].output)

\* two rounds that changed the state, analyzed
C9_Witness ==
    \E c \in Calls :
        /\ Analyzed(c) /\ evolution[c]
        /\ evolution_steps >= 2 /\ Len(rounds_log[c]) = evolution_steps
        /\ rounds_log[c][1].output # rounds_log[c][1].input
        /\ rounds_log[c][2].output # rounds_log[c][1].output

\* lines 133-171 n more times, then lines 173-204 and 308-326, on the pairs handed
\* in: view is what they give
RECURSIVE PureRounds(_, _, _, _, _, _, _)
PureRounds(view, state, pairs, D, t, pos, n) ==
    IF n = 0
    THEN \A amplitudes \in {NormalizeRows(Collapsed(state, D))} :
            view = [amplitudes |-> amplitudes,
                    phases |-> Phases(D, pairs, t, pos),
                    pairs |-> pairs,
                    uniqueness |-> Uniqueness(amplitudes, pairs, D)]
    ELSE \A evolved \in {EvolveState(state, pairs, t, pos)} :
            PureRounds(view, evolved, pairs, D, t, pos + EntangleDraws(state, pairs), n - 1)

\* lines 98-131 with the pairs returned beside the state
PureConstruct(hash_bytes, D, S, t, pos) ==
    [state |-> BuildState(hash_bytes, D, S, t, pos),
     drawn |-> DrawPairs(<<>>, D \div 2, D, t, pos + BuildDraws(hash_bytes, S))]

\* view is what the pipeline gives as a function of the file, the configuration and
\* the draws from position pos on
IsPureSignature(view, path, flag, D, S, N, t, pos) ==
    \A hashed \in {ComplexHash(path)} :
        \A built \in {PureConstruct(hashed.hash, D, S, t, pos)} :
            PureRounds(view, built.state, built.drawn.pairs, D, t, built.drawn.pos,
                       IF flag THEN N ELSE 0)

\* the call that returned last
JustReturned(c) == IsResult(c) /\ \A o \in Calls : o > c => pc[o] = "idle"

\* C10: in sequential use a call's amplitudes, phases, coupling pairs and uniqueness
\* are determined by the file, the configuration and the call's own draws, whatever
\* calls were made before.
C10_HistoryIndependent ==
    \A c \in Calls :
        JustReturned(c) =>
            IsPureSignature([amplitudes |-> result[c].signature_data.amplitudes,
                             phases |-> result[c].signature_data.phases,
                             pairs |-> lists[result[c].signature_data.entanglement],
                             uniqueness |-> result[c].uniqueness_score],
                            file_path[c], evolution[c], dimensions, superposition_count,
                            evolution_steps, tape, rng_start[c])

\* a second result on an engine that an earlier call left with other pairs
C10_Witness ==
    /\ IsResult(1) /\ IsResult(2)
    /\ lists[result[1].signature_data.entanglement] # <<>>
    /\ lists[result[1].signature_data.entanglement]
         # lists[result[2].signature_data.entanglement]

\* C11: a returned result is immutable: no later step of any call, successful or
\* failing, changes the result or the coupling list it holds, although that list is
\* the object the engine field named.
C11_ResultImmutable ==
    [][\A c \in Calls :
          IsResult(c) =>
              /\ result'[c] = result[c]
              /\ lists'[result[c].signature_data.entanglement]
                    = lists[result[c].signature_data.entanglement]]_vars

\* a result with pairs, and a later call that has constructed other pairs
C11_Witness ==
    /\ IsResult(1) /\ pc[2] = "evolve"
    /\ lists[result[1].signature_data.entanglement] # <<>>
    /\ lists[entanglement_pairs] # lists[result[1].signature_data.entanglement]

\* the engine's own fields: the configuration and the coupling list
EngineFields ==
    << dimensions, superposition_count, evolution_steps, resolution,
       entanglement_pairs, lists >>

\* C12: a call that fails in the digest combiner leaves the engine as it was before
\* the call: neither entering the call nor the failing digest step changes the
\* configuration or the coupling list.
C12_FailedDigestLeavesEngine ==
    [][\A c \in Calls :
          (\/ pc[c] = "idle" /\ pc'[c] = "hash"
           \/ pc[c] = "hash" /\ raised'[c] = "OSError")
              => UNCHANGED EngineFields]_vars

\* a call that failed on its path on an engine that holds an earlier call's pairs
C12_Witness ==
    /\ IsResult(1) /\ lists[entanglement_pairs] # <<>>
    /\ pc[2] = "done" /\ raised[2] = "OSError"

\* C13: every entry of a phase matrix the analyzer produces lies in [0, 2 pi), for
\* the cells that draw their phase and for the other cells alike.
C13_PhasesInRange ==
    \A c \in Calls :
        Analyzed(c) =>
            \A i \in 1..dimensions, j \in 1..dimensions :
                /\ signature_data[c].phases[i][j] >= 0
                /\ signature_data[c].phases[i][j] < TwoPi

\* a matrix with a cell whose phase was drawn and is not 0, and a cell outside every
\* pair whose product of indices exceeds 2 pi
C13_Witness ==
    \E c \in Calls :
        /\ Analyzed(c)
        /\ \E i \in 1..dimensions, j \in 1..dimensions :
              /\ InAnyPair(i - 1, j - 1, lists[signature_data[c].entanglement])
              /\ signature_data[c].phases[i][j] > 0
        /\ \E i \in 1..dimensions, j \in 1..dimensions :
              /\ ~InAnyPair(i - 1, j - 1, lists[signature_data[c].entanglement])
              /\ (i - 1) * (j - 1) * Milli >= TwoPi

\* an all-zero variant vector
ZeroVariant(superposition) == SumSeq(superposition) = 0

\* C14: numeric-degenerate inputs never raise: on an engine with D > 0 and a
\* resolution > 0, a call on an existing file (the zero-byte one included) raises in no
\* stage, whatever zeros its state holds, and returns a result with all its fields.
C14_DegenerateNeverRaises ==
    \A c \in Calls :
        (pc[c] # "idle" /\ Exists(file_path[c]) /\ dimensions > 0 /\ resolution > 0) =>
            /\ raised[c] = "none"
            /\ pc[c] = "done" => DOMAIN result[c] = ResultFields

\* the zero-byte file, evolved from a round input with an all-zero variant, analyzed
\* into a matrix with an all-zero row, ready to be scored
C14_Witness ==
    \E c \in Calls :
        /\ pc[c] = "score" /\ file_path[c] = "empty"
        /\ \E k \in DOMAIN rounds_log[c] :
              \E i \in DOMAIN rounds_log[c][k].input :
                  \E s1 \in DOMAIN rounds_log[c][k].input[i] :
                      ZeroVariant(rounds_log[c][k].input[i][s1])
        /\ \E i \in 1..dimensions : RowIsZero(signature_data[c].amplitudes[i])

\* the uniqueness a stored result carries, under either key
OwnUniqueness(data) ==
    IF "uniqueness" \in DOMAIN data THEN data.uniqueness ELSE data.uniqueness_score

\* C15: with results of generate_signature stored in the hub, the quantum score is
\* 0.7 times the mean of the stored results' own uniqueness plus 0.3 times the mean of
\* their confidence.
C15_ScoreFromUniqueness ==
    (/\ quantum_signatures # <<>>
     /\ \A k \in DOMAIN quantum_signatures :
           DOMAIN quantum_signatures[k].data = ResultFields) =>
        CalculateQuantumScore(quantum_signatures) =
            (7 * (SumSeq([k \in DOMAIN quantum_signatures |->
                             OwnUniqueness(quantum_signatures[k].data)])
                  \div Len(quantum_signatures))
             + 3 * (SumSeq([k \in DOMAIN quantum_signatures |->
                               quantum_signatures[k].data.confidence])
                    \div Len(quantum_signatures))) \div 10

\* the scenario: two dimensions of one single-value variant, [1] and [0], handed to
\* the analyzer without a round, with the coupling list [(0, 1)]
Scenario16 ==
    /\ s_hash = <<>>
    /\ dimensions = 2
    /\ superposition_count = 1
    /\ evolution_steps = 0
    /\ s_state = << << <<One>> >>, << <<0>> >> >>
    /\ lists[entanglement_pairs] = << <<0, 1>> >>

\* C16: in the scenario (D = 2, S = 1, the dimensions holding [1] and [0], no round,
\* coupling list [(0, 1)]) the analyzer returns the amplitude row 0 = [1, 0] and
\* a row 1 of zeros, no quotient has a zero divisor, the scorer raises nothing, the
\* entropy is 0 and the score is 0.3 times the entanglement factor 1.
C16_Scenario ==
    Scenario16 /\ s_pc \in {"score", "done"} =>
        /\ Len(s_data.amplitudes) = 2
        /\ s_data.amplitudes[1][1].n = s_data.amplitudes[1][1].d
        /\ s_data.amplitudes[1][2].n = 0
        /\ \A j1 \in 1..2 : s_data.amplitudes[2][j1].n = 0
        /\ \A i1 \in 1..2 : \A j1 \in 1..2 : s_data.amplitudes[i1][j1].d # 0
        /\ ScoreFault(s_data.amplitudes, dimensions) = "none"
        /\ Entropy(s_data.amplitudes) = 0
        /\ s_pc = "done" => s_score * 10 = 3 * Milli

C16_Witness == Scenario16 /\ s_pc = "done"

\* C19: every value of the state is in [0, 1] wherever the stages have left it: as
\* constructed, after the gates of a round and after every coupling step, for every
\* coupling list, also one with a pair repeated or two pairs sharing an index.
C19_ValuesInUnit ==
    \A i1 \in DOMAIN s_state : \A s1 \in DOMAIN s_state[i1] : \A k \in DOMAIN s_state[i1][s1] :
        s_state[i1][s1][k] >= 0 /\ s_state[i1][s1][k] <= One

SharesIndex(p, q) == {p[1], p[2]} \cap {q[1], q[2]} # {}

C19_Witness ==
    /\ s_pc = "loop"
    /\ s_round = evolution_steps
    /\ s_round >= 2
    /\ Len(lists[entanglement_pairs]) >= 2
    /\ SharesIndex(lists[entanglement_pairs][1], lists[entanglement_pairs][2])
    /\ \E i1 \in DOMAIN s_state : \E s1 \in DOMAIN s_state[i1] : \E k \in DOMAIN s_state[i1][s1] :
           s_state[i1][s1][k] > 0 /\ s_state[i1][s1][k] < One

\* the step of the coupling loop that handles variant s_variant of pair s_pair
IsCoupleStep ==
    /\ s_pc = "couple" /\ s_pc' = "couple"
    /\ << s_pair', s_variant' >> # << s_pair, s_variant >>

\* the values of one coupling step: position k of variant s1 of dimension i1 is
\* replaced exactly when the coin fell and it belongs to the pair's variant
IsCoupled(i1, s1, k) ==
    LET p == lists[entanglement_pairs][s_pair]
    IN  /\ Coin(RawAt(tape, rng))
        /\ i1 \in {p[1] + 1, p[2] + 1}
        /\ s1 = s_variant
        /\ k <= Min(Len(s_state[p[1] + 1][s1]), Len(s_state[p[2] + 1][s1]))

\* C20: the coupling begins on the state the normalization and the transform of all
\* variants have produced; a step of it, if the coin fell, replaces every value pair
\* (x in dim a, y in dim b) of the variant by mean + diff and mean - diff (each to
\* the grid below), so that x + y is kept (to one grid unit) and dim a holds the
\* larger; every other value is left alone, and all of them if the coin did not fall.
C20_CouplingStep ==
    [][ /\ s_pc = "loop" /\ s_pc' = "couple" =>
            /\ s_pair' = 1 /\ s_variant' = 1
            /\ DOMAIN s_state' = DOMAIN s_state
            /\ \A i1 \in DOMAIN s_state :
                   /\ DOMAIN s_state'[i1] = DOMAIN s_state[i1]
                   /\ \A s1 \in DOMAIN s_state[i1] :
                          /\ DOMAIN s_state'[i1][s1] = DOMAIN s_state[i1][s1]
                          /\ \A k \in DOMAIN s_state[i1][s1] :
                                 s_state'[i1][s1][k]
                                    = Transform(Normalize(s_state[i1][s1])[k])
        /\ IsCoupleStep =>
            /\ DOMAIN s_state' = DOMAIN s_state
            /\ \A i1 \in DOMAIN s_state :
                   /\ DOMAIN s_state'[i1] = DOMAIN s_state[i1]
                   /\ \A s1 \in DOMAIN s_state[i1] :
                          /\ DOMAIN s_state'[i1][s1] = DOMAIN s_state[i1][s1]
                          /\ \A k \in DOMAIN s_state[i1][s1] :
                                 ~IsCoupled(i1, s1, k)
                                    => s_state'[i1][s1][k] = s_state[i1][s1][k]
            /\ Coin(RawAt(tape, rng)) =>
                   LET a == lists[entanglement_pairs][s_pair][1] + 1
                       b == lists[entanglement_pairs][s_pair][2] + 1
                   IN  \A k \in 1..Min(Len(s_state[a][s_variant]), Len(s_state[b][s_variant])) :
                           LET x == s_state[a][s_variant][k]
                               y == s_state[b][s_variant][k]
                               x2 == s_state'[a][s_variant][k]
                               y2 == s_state'[b][s_variant][k]
                           IN  /\ 4 * x2 <= 2 * (x + y) + Abs(x - y)
                               /\ 2 * (x + y) + Abs(x - y) < 4 * x2 + 4
                               /\ 4 * y2 <= 2 * (x + y) - Abs(x - y)
                               /\ 2 * (x + y) - Abs(x - y) < 4 * y2 + 4
                               /\ x2 >= y2
                               /\ x2 + y2 <= x + y
                               /\ x2 + y2 >= x + y - 1
        /\ s_pc = "couple" /\ s_pc' = "loop" =>
            s_state = EvolveState(s_before.state, lists[entanglement_pairs], tape, s_before.rng)
      ]_vars

\* a coupling step has replaced a pair of different values, and left a variant it
\* did not select
C20_Witness ==
    /\ s_pc = "couple"
    /\ superposition_count = 2
    /\ s_pair = 2
    /\ s_variant = 1
    /\ s_state # Gates(s_before.state)
    /\ \E i1 \in DOMAIN s_state : s_state[i1][2] = Gates(s_before.state)[i1][2]
                                   /\ s_state[i1][1] # Gates(s_before.state)[i1][1]

\* C18: the constructed state has D dimensions; dimension i is made from the bytes
\* of the digest that begin at i * floor(len / D), floor(len / D) of them for the
\* first D - 1 dimensions and all that remain for the last (so the chunks are
\* contiguous, in order, and cover the digest); each dimension has S variants, each
\* as long as its chunk, each value within the jitter of its byte's value.
C18_ChunksCoverDigest ==
    \A c \in Calls :
        constructed[c] # <<>> /\ file_hash[c] # <<>> =>
            LET size == Len(file_hash[c]) \div dimensions
                length(i1) == IF i1 < dimensions THEN size
                              ELSE Len(file_hash[c]) - (dimensions - 1) * size
            IN  /\ Len(constructed[c]) = dimensions
                /\ \A i1 \in 1..dimensions :
                       /\ Len(constructed[c][i1]) = superposition_count
                       /\ \A s1 \in 1..superposition_count :
                              /\ Len(constructed[c][i1][s1]) = length(i1)
                              /\ \A k \in 1..length(i1) :
                                     Abs(constructed[c][i1][s1][k]
                                         - ByteValue(file_hash[c][(i1 - 1) * size + k]))
                                        <= One \div 10 + 1

\* a digest that does not divide evenly has been split, with two variants each
C18_Witness ==
    \E c \in Calls :
        /\ constructed[c] # <<>> /\ file_hash[c] # <<>>
        /\ Len(file_hash[c]) % dimensions # 0
        /\ superposition_count = 2
        /\ Len(constructed[c][dimensions][1]) > Len(constructed[c][1][1])

\* the pixels the fill has passed, in its row order
PixelsPassed ==
    {p \in (0..(resolution - 1)) \X (0..(resolution - 1)) :
        p[2] < r_y \/ (p[2] = r_y /\ p[1] < r_x)}

\* C17: the image is resolution x resolution from its creation to its return,
\* whatever D is; every pixel the fill has passed is drawn, from a cell (i, j) with
\* 0 <= i, j < D; nothing outside the image is drawn; when the renderer returns,
\* every pixel of the image is drawn and the size is the one the render step of
\* generate_signature yields.
C17_BufferAndCells ==
    r_pc \in {"fill", "done"} =>
        /\ r_size = [width |-> resolution, height |-> resolution]
        /\ DOMAIN r_painted \subseteq (0..(resolution - 1)) \X (0..(resolution - 1))
        /\ \A p \in PixelsPassed :
               /\ p \in DOMAIN r_painted
               /\ r_painted[p].cell[1] \in 0..(dimensions - 1)
               /\ r_painted[p].cell[2] \in 0..(dimensions - 1)
        /\ r_pc = "done" =>
               /\ DOMAIN r_painted = (0..(resolution - 1)) \X (0..(resolution - 1))
               /\ r_size = Visualize(r_data, resolution)

\* an image has been filled whose cell size is not a float exactly and whose rows
\* fall into more cells than one
C17_Witness ==
    /\ r_pc = "done"
    /\ resolution = MaxR
    /\ ~IsPowerOfTwo(dimensions \div Gcd(resolution, dimensions))
    /\ \E p \in DOMAIN r_painted : r_painted[p].cell[1] = dimensions - 1

\* the indices that are an endpoint of a pair of the list the engine field names
Endpoints ==
    {lists[entanglement_pairs][p][1] : p \in DOMAIN lists[entanglement_pairs]}
    \cup {lists[entanglement_pairs][p][2] : p \in DOMAIN lists[entanglement_pairs]}

\* the cells with a row or a column index among the endpoints
CoupledCells ==
    {c \in (0..(dimensions - 1)) \X (0..(dimensions - 1)) :
        c[1] \in Endpoints \/ c[2] \in Endpoints}

\* C21: in the analyzer's phases, a cell (i, j) with i or j an endpoint of a pair
\* holds a draw of the generator (the draws are taken in row order, one for each
\* such cell and for no other), and every other cell holds (i * j) mod 2 pi, a
\* value of the indices alone.
C21_PhaseRule ==
    s_pc \in {"score", "done"} =>
        \A i \in 0..(dimensions - 1) : \A j \in 0..(dimensions - 1) :
            IF << i, j >> \in CoupledCells
            THEN s_data.phases[i + 1][j + 1]
                    = RandomPhase(RawAt(tape,
                          rng + Cardinality(CoupledCells) * (TapeLen - 1)
                          + Cardinality({c \in CoupledCells :
                                            c[1] * dimensions + c[2] < i * dimensions + j})))
            ELSE s_data.phases[i + 1][j + 1] = (i * j * Milli) % TwoPi

\* three dimensions and one pair: a cell beside the pair with a phase that is not
\* zero, and a cell of the pair whose draw differs from the value of its indices
C21_Witness ==
    /\ s_pc = "done"
    /\ dimensions = 3
    /\ Len(lists[entanglement_pairs]) = 1
    /\ \E c \in ((0..2) \X (0..2)) \ CoupledCells : s_data.phases[c[1] + 1][c[2] + 1] > 0
    /\ \E c \in CoupledCells :
           s_data.phases[c[1] + 1][c[2] + 1] # (c[1] * c[2] * Milli) % TwoPi

\* C22: the normalized entropy the scorer computes (the entropy of all D x D
\* amplitudes over log2(D * D)) is in [0, 1] for every amplitude matrix the
\* analyzer returns.
C22_EntropyNormalized ==
    \A c \in Calls :
        Analyzed(c) /\ dimensions > 0 =>
            /\ NormalizedEntropy(signature_data[c].amplitudes) >= 0
            /\ NormalizedEntropy(signature_data[c].amplitudes) <= Milli

\* the last n elements of a sequence, all of them if it has fewer
LastOf(seq, n) == SubSeq(seq, Len(seq) - Min(Len(seq), n) + 1, Len(seq))

\* C23: after _record_threat returns threat_history holds at most the cap (1000 in
\* the code), and after update_metrics returns metrics_history holds at most
\* max_history; each is the former history with the new entry appended, cut to its
\* most recent entries in their order.
C23_HistoriesBounded ==
    [][ /\ Len(threat_history') <= HistoryCap
        /\ Len(metrics_history') <= MaxHistory
        /\ threat_history' # threat_history =>
               \E threat \in ThreatInputs :
                   threat_history' = LastOf(Append(threat_history, threat), HistoryCap)
        /\ m_clock' # m_clock =>
               /\ metrics_history' # <<>>
               /\ metrics_history'[Len(metrics_history')].timestamp = m_clock'
               /\ metrics_history' =
                      LastOf(Append(metrics_history, metrics_history'[Len(metrics_history')]),
                             MaxHistory)
      ]_vars

\* both histories are full and have dropped their oldest entry
C23_Witness ==
    /\ Len(metrics_history) = MaxHistory
    /\ metrics_history[1].timestamp > 1
    /\ m_clock = MaxHistory + 2
    /\ Len(threat_history) = HistoryCap
    /\ threat_history[1] # threat_history[HistoryCap]

\* the metric values a history record shows when it is read
RecordValues(record) == [c \in DOMAIN record.metrics |-> m_objects[record.metrics[c]]]

\* C24: a record of metrics_history holds the metric values as of the update that
\* appended it: no later update_metrics call changes the values a record already in
\* the history shows.
C24_RecordsKeepValues ==
    [][\A k \in DOMAIN metrics_history : \A k2 \in DOMAIN metrics_history' :
          metrics_history'[k2].timestamp = metrics_history[k].timestamp =>
              [c \in DOMAIN metrics_history'[k2].metrics |->
                  m_objects'[metrics_history'[k2].metrics[c]]]
                 = RecordValues(metrics_history[k])
      ]_vars

\* C25: over update_system_status calls every counter stays >= 0.  A call with a
\* dict moves high_cpu up by 1 if cpu_percent (0 if absent) is above 80 and else
\* down by 1 but not below 0, high_memory likewise with memory_percent and 85, and
\* leaves the other counters; it emits threat_detected for a counter, once, exactly
\* if the counter is then above 5 (so never before it has reached 6), with the
\* confidence min(counter / 10, 0.9).  A call with no dict is rejected: it changes
\* no counter and emits nothing.
C25_CountersAndThreats ==
    [][ /\ \A n \in DOMAIN anomaly_counters' : anomaly_counters'[n] >= 0
        /\ status_call' # None =>
            /\ anomaly_counters'.high_cpu =
                   (IF "cpu_percent" \in DOMAIN status_call' /\ status_call'.cpu_percent > 80
                    THEN anomaly_counters.high_cpu + 1
                    ELSE IF anomaly_counters.high_cpu = 0 THEN 0
                    ELSE anomaly_counters.high_cpu - 1)
            /\ anomaly_counters'.high_memory =
                   (IF "memory_percent" \in DOMAIN status_call'
                       /\ status_call'.memory_percent > 85
                    THEN anomaly_counters.high_memory + 1
                    ELSE IF anomaly_counters.high_memory = 0 THEN 0
                    ELSE anomaly_counters.high_memory - 1)
            /\ anomaly_counters'.disk_activity = anomaly_counters.disk_activity
            /\ anomaly_counters'.network_activity = anomaly_counters.network_activity
            /\ \A n \in DOMAIN anomaly_counters' :
                   /\ Cardinality({k \in DOMAIN emitted' : emitted'[k].type = ThreatName[n]})
                         = (IF anomaly_counters'[n] > 5 THEN 1 ELSE 0)
                   /\ \A k \in DOMAIN emitted' :
                          emitted'[k].type = ThreatName[n] =>
                              /\ anomaly_counters'[n] >= 6
                              /\ emitted'[k].confidence * 10
                                    = (IF anomaly_counters'[n] < 9
                                       THEN anomaly_counters'[n] * Milli ELSE 9 * Milli)
                              /\ emitted'[k].confidence <= 900
            /\ \A k \in DOMAIN emitted' :
                   \E n \in DOMAIN anomaly_counters' : emitted'[k].type = ThreatName[n]
        /\ status_call' = None =>
            /\ anomaly_counters' = anomaly_counters
            /\ emitted' = <<>>
      ]_vars

\* both counters persist; one is at the top of the range, where the confidence is
\* capped, the other has just passed the limit
C25_Witness ==
    /\ anomaly_counters.high_cpu = MaxCounter
    /\ anomaly_counters.high_memory = 6
    /\ Len(emitted) = 2
    /\ emitted[1].confidence = 900
    /\ emitted[2].confidence = 600

\* C26: after update_neural_data(data) has returned, the neural component is marked
\* active exactly if data is a dict.
C26_ActiveIffDict ==
    neural_call # NoCall =>
        (components_status.neural_ecosystem <=> IsDict(neural_call))

\* a stored signature whose uniqueness_score is above 0.9
IsHot(item) == "uniqueness_score" \in DOMAIN item.data /\ item.data.uniqueness_score > 900

\* the history entry of a stored signature
HotEntry(item) ==
    [type |-> "quantum_anomaly", source |-> "quantum_signatures", file_path |-> item.path,
     uniqueness_score |-> item.data.uniqueness_score]

\* C27: an update_quantum_signature call with a dict scans all stored signatures:
\* for every stored path with uniqueness_score above 0.9, in the order stored, also
\* those stored by earlier calls, it emits threat_detected and appends a
\* threat_history entry, so the history grows by the number of such paths, cut to
\* the cap; a call with no dict records nothing.
C27_RescanEveryCall ==
    [][ /\ components_status'.quantum_signatures =>
            \A hot \in {SelectSeq(quantum_signatures', IsHot)} :
                /\ threat_history'
                      = LastOf(threat_history \o [k \in 1..Len(hot) |-> HotEntry(hot[k])],
                               HistoryCap)
                /\ Len(emitted') = Len(hot)
                /\ \A k \in 1..Len(hot) :
                       emitted'[k].confidence = hot[k].data.uniqueness_score
        /\ ~components_status'.quantum_signatures =>
            threat_history' = threat_history /\ emitted' = <<>>
      ]_vars

\* a path above 0.9 stored first, another path stored after it that is not, and the
\* first path twice in the history
C27_Witness ==
    /\ Len(quantum_signatures) = 2
    /\ IsHot(quantum_signatures[1])
    /\ ~IsHot(quantum_signatures[2])
    /\ Cardinality({k \in DOMAIN threat_history :
                       threat_history[k].file_path = quantum_signatures[1].path}) >= 2

\* C28: after any sequence of update_animation and update_system_data calls every
\* anomaly in the list has an intensity above 0 and at most 1; and when
\* update_animation has removed the first anomaly of the list, the one that followed
\* it is in the list as it was, neither updated nor removed in that call.
C28_IntensityInRange ==
    /\ \A k \in DOMAIN anomalies :
           anomalies[k].intensity > 0 /\ anomalies[k].intensity <= Full
    /\ (a_last # NoCall /\ Len(a_last.before) >= 2
           /\ a_last.before[1].intensity + a_last.draws[1] <= 0)
         => (anomalies # <<>> /\ anomalies[1] = a_last.before[2])

\* the first anomaly was removed and its follower, below full intensity, skipped
C28_Witness ==
    /\ a_last # NoCall
    /\ Len(a_last.before) = 2
    /\ a_last.before[1].intensity + a_last.draws[1] <= 0
    /\ a_last.before[2].intensity < Full - 3
    /\ anomalies = << a_last.before[2] >>

====
